---- MODULE Spec2Model ----
(***************************************************************************)
(* Model of src/src/chronology_agent.py (class ChronologyAgent): the       *)
(* Chunker (_chunk_large_document), the Batcher (the batching loop of      *)
(* generate_chronology), the retry engine (_call_api_with_retry) and the   *)
(* Merger (_parse_entry_date, _sort_entries_chronologically).              *)
(*                                                                         *)
(* Text is modelled character by character: a Python str is a sequence of  *)
(* one-character strings, so that split, strip, join, len and the date     *)
(* regular expression are computed the way the interpreter computes them.  *)
(***************************************************************************)
EXTENDS Integers, Sequences, FiniteSets, TLC

VARIABLES
    pc,                 \* position of the running call
    filename,           \* _chunk_large_document: argument filename
    content,            \* argument content of _chunk_large_document and
                        \* of check_formatting_violations
    max_chunk_chars,    \* _chunk_large_document: argument max_chunk_chars
    chunks,             \* _chunk_large_document: returned list
    documents,          \* generate_chronology: documents read from input_dir
    max_batch_tokens,   \* generate_chronology: MAX_BATCH_TOKENS
    batches,            \* generate_chronology: batches
    max_retries,        \* _call_api_with_retry: argument max_retries
    attempt,            \* _call_api_with_retry: loop variable attempt
    responses,          \* what the service answered to each request issued
    waits,              \* the delays passed to time.sleep, in order
    delay,              \* _call_api_with_retry: local delay while sleeping
    outcome,            \* _call_api_with_retry: value returned or raised
    entries_text,       \* _sort_entries_chronologically: argument
    sorted_text,        \* _sort_entries_chronologically: returned text
    files,              \* the *.txt files of the input directory, sorted
    date_map,           \* _map_dates_to_documents: returned dict
    rules_file,         \* .claude/CLAUDE.md under base_dir
    rules,              \* generate_chronology: local rules
    prompt,             \* _call_api_with_retry: argument prompt
    call_log,           \* the calls of _call_api_with_retry started so far
    batch_num,          \* generate_chronology: loop variable batch_num
    batch_results,      \* generate_chronology: batch_results
    files_written,      \* the files written to output_dir
    gen_result,         \* generate_chronology: returned dict
    chronology_text,    \* verify_chronology: text read from chronology_path
    entries_by_date,    \* verify_chronology: entries_by_date, in dict order
    processed_dates,    \* verify_chronology: processed_dates
    verification_results, \* verify_chronology: verification_results
    verify_result,      \* verify_chronology: returned dict
    violations          \* check_formatting_violations: returned list

vars == <<pc, filename, content, max_chunk_chars, chunks, documents,
          max_batch_tokens, batches, max_retries, attempt, responses, waits,
          delay, outcome, entries_text, sorted_text, files, date_map,
          rules_file, rules, prompt, call_log, batch_num, batch_results,
          files_written, gen_result, chronology_text, entries_by_date,
          processed_dates, verification_results, verify_result,
          violations>>

chunkerVars == <<filename, content, max_chunk_chars, chunks>>
batcherVars == <<documents, max_batch_tokens, batches>>
retryVars == <<max_retries, attempt, responses, waits, delay, outcome>>
mergerVars == <<entries_text, sorted_text>>
guardVars == <<violations>>
indexVars == <<files, date_map>>
generateVars == <<rules_file, rules, prompt, call_log, batch_num,
                  batch_results, files_written, gen_result>>
verifyVars == <<chronology_text, entries_by_date, processed_dates,
                verification_results, verify_result>>
pipelineVars == <<indexVars, generateVars, verifyVars>>

(***************************************************************************)
(* Bounds of the model.                                                    *)
(***************************************************************************)
MaxContentLen == 5
MaxChunkChars == 4
MaxDocs == 3
MaxDocChars == 9
MaxBatchTokens == 2
MaxRetries == 3
JitterRes == 2
MaxEntries == 4
MaxWords == 3
MaxFiles == 2
MaxCallRetries == 2
GenChunkChars == 8
MaxVerifyEntries == 2
AuditDocChars == 12
MaxGuardLines == 2
SmallChunkChars == 11
LargeChunkChars == 40

(***************************************************************************)
(* Python str operations on sequences of characters.                       *)
(***************************************************************************)
Whitespace == {" ", "\n"}

Digits == <<"0", "1", "2", "3", "4", "5", "6", "7", "8", "9">>

IsDigit(c) == c \in {"0", "1", "2", "3", "4", "5", "6", "7", "8", "9"}

DigitValue(c) == (CHOOSE i \in 1..10 : Digits[i] = c) - 1

\* str(n) for n >= 0, as used by the f-string of the chunk file name
RECURSIVE Decimal(_)
Decimal(n) ==
    IF n < 10 THEN <<Digits[n + 1]>>
    ELSE Append(Decimal(n \div 10), Digits[(n % 10) + 1])

\* sep.join(parts)
RECURSIVE JoinWith(_, _)
JoinWith(parts, sep) ==
    IF parts = <<>> THEN <<>>
    ELSE IF Len(parts) = 1 THEN parts[1]
    ELSE parts[1] \o sep \o JoinWith(Tail(parts), sep)

\* index of the first character of s at or after i that is not whitespace
RECURSIVE FirstNonSpace(_, _)
FirstNonSpace(s, i) ==
    IF i <= Len(s) /\ s[i] \in Whitespace THEN FirstNonSpace(s, i + 1) ELSE i

\* index of the last character of s at or before i that is not whitespace
RECURSIVE LastNonSpace(_, _)
LastNonSpace(s, i) ==
    IF i >= 1 /\ s[i] \in Whitespace THEN LastNonSpace(s, i - 1) ELSE i

\* s.lstrip()
LStrip(s) == SubSeq(s, FirstNonSpace(s, 1), Len(s))

\* s.strip()
Strip(s) == SubSeq(s, FirstNonSpace(s, 1), LastNonSpace(s, Len(s)))

\* content.split(): the maximal runs of non-whitespace characters; start is
\* where the current run began, 0 outside a run
RECURSIVE SplitWordsFrom(_, _, _)
SplitWordsFrom(s, start, i) ==
    IF i > Len(s)
    THEN (IF start = 0 THEN <<>> ELSE <<SubSeq(s, start, Len(s))>>)
    ELSE IF s[i] \in Whitespace
         THEN (IF start = 0 THEN <<>> ELSE <<SubSeq(s, start, i - 1)>>)
              \o SplitWordsFrom(s, 0, i + 1)
         ELSE SplitWordsFrom(s, IF start = 0 THEN i ELSE start, i + 1)

SplitWords(s) == SplitWordsFrom(s, 0, 1)

(***************************************************************************)
(* Chunker: _chunk_large_document                                          *)
(***************************************************************************)
\* len(content) <= max_chunk_chars
WithinLimitStrict(text, limit) == Len(text) < limit

WithinLimit(text, limit) == Len(text) <= limit

\* word_length = len(word) + 1
WordLengthNoSpace(word) == Len(word)

WordLength(word) == Len(word) + 1

\* chunk_text = ' '.join(current_chunk)
ChunkTextNoSeparator(current_chunk) == JoinWith(current_chunk, <<>>)

ChunkText(current_chunk) == JoinWith(current_chunk, <<" ">>)

\* f"{filename} (part {chunk_num})"
PartName(name, chunk_num) ==
    name \o <<" ", "(", "p", "a", "r", "t", " ">> \o Decimal(chunk_num)
         \o <<")">>

\* the dict appended to chunks, with chunk_num = len(chunks) + 1
MakeChunk(name, done, current_chunk) ==
    [filename |-> PartName(name, Len(done) + 1),
     content |-> ChunkText(current_chunk)]

\* if current_chunk: the words left over after the loop become the last chunk
FinalChunkDropped(name, done, current_chunk) == done

FinalChunk(name, done, current_chunk) ==
    IF current_chunk # <<>>
    THEN Append(done, MakeChunk(name, done, current_chunk))
    ELSE done

\* the for loop over words followed by the final-chunk block
RECURSIVE ChunkWords(_, _, _, _, _, _)
ChunkWords(name, words, limit, done, current_chunk, current_length) ==
    IF words = <<>>
    THEN FinalChunk(name, done, current_chunk)
    ELSE LET word == Head(words)
             word_length == WordLength(word)
         IN IF current_length + word_length > limit /\ current_chunk # <<>>
            THEN ChunkWords(name, Tail(words), limit,
                            Append(done, MakeChunk(name, done, current_chunk)),
                            <<word>>, word_length)
            ELSE ChunkWords(name, Tail(words), limit, done,
                            Append(current_chunk, word),
                            current_length + word_length)

chunk_large_document(name, text, limit) ==
    IF WithinLimit(text, limit)
    THEN <<[filename |-> name, content |-> text]>>
    ELSE ChunkWords(name, SplitWords(text), limit, <<>>, <<>>, 0)

(***************************************************************************)
(* Batcher: the batching loop of generate_chronology                       *)
(***************************************************************************)
\* doc_tokens = len(doc['content']) // 4
DocTokens(doc) == Len(doc.content) \div 4

\* current_batch and (current_batch_tokens + doc_tokens) > MAX_BATCH_TOKENS
StartsNewBatchIgnoringDoc(current_batch, batch_tokens, doc_tokens, budget) ==
    current_batch # <<>> /\ batch_tokens > budget

StartsNewBatch(current_batch, batch_tokens, doc_tokens, budget) ==
    current_batch # <<>> /\ (batch_tokens + doc_tokens) > budget

\* current_batch_tokens = doc_tokens
NewBatchTokensNotReset(batch_tokens, doc_tokens) == batch_tokens + doc_tokens

NewBatchTokens(batch_tokens, doc_tokens) == doc_tokens

\* if current_batch: batches.append(current_batch)
AddFinalBatchDropped(done, current_batch) == done

AddFinalBatch(done, current_batch) ==
    IF current_batch # <<>> THEN Append(done, current_batch) ELSE done

\* for doc in documents: ... followed by the final-batch block
RECURSIVE BatchLoop(_, _, _, _, _)
BatchLoop(docs, budget, done, current_batch, current_batch_tokens) ==
    IF docs = <<>>
    THEN AddFinalBatch(done, current_batch)
    ELSE LET doc == Head(docs)
             doc_tokens == DocTokens(doc)
         IN IF StartsNewBatch(current_batch, current_batch_tokens,
                              doc_tokens, budget)
            THEN BatchLoop(Tail(docs), budget, Append(done, current_batch),
                           <<doc>>,
                           NewBatchTokens(current_batch_tokens, doc_tokens))
            ELSE BatchLoop(Tail(docs), budget, done,
                           Append(current_batch, doc),
                           current_batch_tokens + doc_tokens)

BatchDocuments(docs, budget) == BatchLoop(docs, budget, <<>>, <<>>, 0)

(***************************************************************************)
(* Retry engine: _call_api_with_retry                                      *)
(***************************************************************************)
base_delay == 2

\* 2 ** attempt
RECURSIVE Pow2(_)
Pow2(n) == IF n <= 0 THEN 1 ELSE 2 * Pow2(n - 1)

\* "overload" in error_message or
\* ("500" in error_message and "api_error" in error_message)
IsOverload(error_message) ==
    \/ "overload" \in error_message
    \/ ("500" \in error_message /\ "api_error" \in error_message)

\* "429" in error_message or "rate" in error_message
IsRateLimitAlwaysTruthy(error_message) == TRUE

IsRateLimit(error_message) ==
    "429" \in error_message \/ "rate" \in error_message

\* attempt < max_retries - 1
HasRetriesLeftOffByOne(n, limit) == n < limit

HasRetriesLeft(n, limit) == n < limit - 1

\* delay = base_delay * (2 ** attempt) + (time.time() % 1), in units of
\* 1/JitterRes second; jitter is time.time() % 1 in the same units
BackoffDelayFlat(n, jitter) == base_delay * JitterRes + jitter

BackoffDelay(n, jitter) == base_delay * JitterRes * Pow2(n) + jitter

(***************************************************************************)
(* Merger: _parse_entry_date and _sort_entries_chronologically             *)
(***************************************************************************)
\* entries_text.split('\n\n'): cut at each blank line, left to right
RECURSIVE SplitBlankLinesFrom(_, _, _)
SplitBlankLinesFrom(s, start, i) ==
    LET found == {j \in i..(Len(s) - 1) : s[j] = "\n" /\ s[j + 1] = "\n"}
    IN IF found = {} THEN <<SubSeq(s, start, Len(s))>>
       ELSE LET j == CHOOSE j \in found : \A k \in found : j <= k
            IN <<SubSeq(s, start, j - 1)>>
                   \o SplitBlankLinesFrom(s, j + 2, j + 2)

SplitBlankLines(s) == SplitBlankLinesFrom(s, 1, 1)

\* e.strip() of a piece of the split
EntryTrimLeftOnly(e) == LStrip(e)

EntryTrim(e) == Strip(e)

\* [e.strip() for e in entries_text.split('\n\n') if e.strip()]
RECURSIVE StripAndKeep(_)
StripAndKeep(pieces) ==
    IF pieces = <<>> THEN <<>>
    ELSE LET e == EntryTrim(Head(pieces))
         IN IF e # <<>> THEN <<e>> \o StripAndKeep(Tail(pieces))
            ELSE StripAndKeep(Tail(pieces))

Entries(text) == StripAndKeep(SplitBlankLines(text))

AllDigits(s, from, to) ==
    /\ to <= Len(s)
    /\ \A i \in from..to : IsDigit(s[i])

\* int() of a run of decimal digits
RECURSIVE IntOf(_)
IntOf(ds) ==
    IF ds = <<>> THEN 0
    ELSE 10 * IntOf(SubSeq(ds, 1, Len(ds) - 1)) + DigitValue(ds[Len(ds)])

\* re.match(r'^(\d{1,2})/(\d{1,2})/(\d{4})', s): the groups as a sequence
\* of three digit strings, or <<>> when there is no match.  m and d are the
\* lengths of the first two groups.
DateMatchAt(s, m, d) ==
    /\ AllDigits(s, 1, m)
    /\ Len(s) >= m + 1 /\ s[m + 1] = "/"
    /\ AllDigits(s, m + 2, m + 1 + d)
    /\ Len(s) >= m + d + 2 /\ s[m + d + 2] = "/"
    /\ AllDigits(s, m + d + 3, m + d + 6)

MatchLeadingDate(s) ==
    IF \E m \in 1..2, d \in 1..2 : DateMatchAt(s, m, d)
    THEN LET md == CHOOSE md \in (1..2) \X (1..2) : DateMatchAt(s, md[1], md[2])
             m == md[1]
             d == md[2]
         IN <<SubSeq(s, 1, m), SubSeq(s, m + 2, m + 1 + d),
              SubSeq(s, m + d + 3, m + d + 6)>>
    ELSE <<>>

IsLeapYear(year) ==
    year % 4 = 0 /\ (year % 100 # 0 \/ year % 400 = 0)

\* the last day of a month
DaysInMonthAlways31(year, month) == 31

DaysInMonth(year, month) ==
    IF month = 2 THEN (IF IsLeapYear(year) THEN 29 ELSE 28)
    ELSE IF month \in {4, 6, 9, 11} THEN 30 ELSE 31

\* datetime(year, month, day) does not raise ValueError
ValidDate(year, month, day) ==
    /\ year >= 1 /\ year <= 9999
    /\ month >= 1 /\ month <= 12
    /\ day >= 1 /\ day <= DaysInMonth(year, month)

\* the datetime as <<year, month, day>>, or <<>> for None
parse_entry_date(entry) ==
    LET groups == MatchLeadingDate(Strip(entry))
    IN IF groups = <<>> THEN <<>>
       ELSE LET month == IntOf(groups[1])
                day == IntOf(groups[2])
                year == IntOf(groups[3])
            IN IF ValidDate(year, month, day) THEN <<year, month, day>>
               ELSE <<>>

\* datetime a < datetime b
DateLessOrEqual(a, b) ==
    \/ a[1] < b[1]
    \/ a[1] = b[1] /\ a[2] < b[2]
    \/ a[1] = b[1] /\ a[2] = b[2] /\ a[3] <= b[3]

DateLess(a, b) ==
    \/ a[1] < b[1]
    \/ a[1] = b[1] /\ a[2] < b[2]
    \/ a[1] = b[1] /\ a[2] = b[2] /\ a[3] < b[3]

\* dated_entries.sort(key=lambda x: x[0]): a stable sort, as an insertion
\* of each pair behind every pair that is not later than it
RECURSIVE InsertByDate(_, _)
InsertByDate(sorted, pair) ==
    IF sorted = <<>> THEN <<pair>>
    ELSE IF DateLess(pair[1], Head(sorted)[1]) THEN <<pair>> \o sorted
         ELSE <<Head(sorted)>> \o InsertByDate(Tail(sorted), pair)

RECURSIVE SortByDate(_)
SortByDate(pairs) ==
    IF pairs = <<>> THEN <<>>
    ELSE InsertByDate(SortByDate(SubSeq(pairs, 1, Len(pairs) - 1)),
                      pairs[Len(pairs)])

\* dated_entries: the (parsed_date, entry) pairs of the entries that parse
RECURSIVE DatedEntries(_)
DatedEntries(entries) ==
    IF entries = <<>> THEN <<>>
    ELSE LET parsed_date == parse_entry_date(Head(entries))
         IN IF parsed_date # <<>>
            THEN <<<<parsed_date, Head(entries)>>>>
                 \o DatedEntries(Tail(entries))
            ELSE DatedEntries(Tail(entries))

\* entries_without_dates
EntriesWithoutDatesDropped(entries) == <<>>

RECURSIVE EntriesWithoutDates(_)
EntriesWithoutDates(entries) ==
    IF entries = <<>> THEN <<>>
    ELSE IF parse_entry_date(Head(entries)) = <<>>
         THEN <<Head(entries)>> \o EntriesWithoutDates(Tail(entries))
         ELSE EntriesWithoutDates(Tail(entries))

sort_entries_chronologically(text) ==
    LET entries == Entries(text)
    IN IF entries = <<>> THEN text
       ELSE LET dated_entries == SortByDate(DatedEntries(entries))
                sorted_entries ==
                    [i \in 1..Len(dated_entries) |-> dated_entries[i][2]]
                        \o EntriesWithoutDates(entries)
            IN JoinWith(sorted_entries, <<"\n", "\n">>)

(***************************************************************************)
(* Inputs                                                                  *)
(***************************************************************************)
TextsUpTo(alphabet, n) == UNION {[1..k -> alphabet] : k \in 0..n}

ChunkAlphabet == {"a", "b", " ", "\n"}

Filenames == {<<"f">>, <<"g", ".", "t", "x", "t">>}

\* a document of n characters read from the i-th file of the sorted glob
FileDocument(i, n) ==
    [filename |-> <<"d">> \o Decimal(i), content |-> [j \in 1..n |-> "x"]]

DocumentLists ==
    UNION {{[i \in 1..k |-> FileDocument(i, sizes[i])] :
                sizes \in [1..k -> 0..MaxDocChars]} : k \in 0..MaxDocs}

ChunkerIdle ==
    /\ filename = <<>>
    /\ content = <<>>
    /\ max_chunk_chars = 0
    /\ chunks = <<>>

BatcherIdle ==
    /\ documents = <<>>
    /\ max_batch_tokens = 0
    /\ batches = <<>>

RetryIdle ==
    /\ max_retries = 0
    /\ attempt = 0
    /\ responses = <<>>
    /\ waits = <<>>
    /\ delay = 0
    /\ outcome = [kind |-> "pending"]

GuardIdle == violations = <<>>

MergerIdle ==
    /\ entries_text = <<>>
    /\ sorted_text = <<>>

\* a prompt, as the parts the f-string puts into it
Prompt(kind, rules_text, docs, entries) ==
    [kind |-> kind, rules |-> rules_text, documents |-> docs,
     entries |-> entries]

NoPrompt == Prompt("none", "", <<>>, <<>>)

NoOutcome ==
    [kind |-> "pending", text |-> <<>>, retries |-> 0,
     cause |-> [kind |-> "none", signal |-> "none", message |-> {},
                text |-> <<>>]]

\* the dict a pipeline method returns: 'success', 'error' (a fixed message
\* or str(e) of the exception caught) and the payload of a success
Result(kind, success, message, exception, payload) ==
    [kind |-> kind, success |-> success,
     error |-> [message |-> message, exception |-> exception],
     payload |-> payload]

NoResult == Result("pending", FALSE, "", NoOutcome, <<>>)

IndexIdle ==
    /\ files = <<>>
    /\ date_map = <<>>

GenerateIdle ==
    /\ rules_file = [exists |-> FALSE, text |-> ""]
    /\ rules = ""
    /\ prompt = NoPrompt
    /\ call_log = <<>>
    /\ batch_num = 0
    /\ batch_results = <<>>
    /\ files_written = <<>>
    /\ gen_result = NoResult

VerifyIdle ==
    /\ chronology_text = <<>>
    /\ entries_by_date = <<>>
    /\ processed_dates = 0
    /\ verification_results = <<>>
    /\ verify_result = NoResult

PipelineIdle == IndexIdle /\ GenerateIdle /\ VerifyIdle

(***************************************************************************)
(* Chunker as a state machine: one call of _chunk_large_document           *)
(***************************************************************************)
ChunkerInit ==
    /\ pc = "chunk_call"
    /\ filename \in Filenames
    /\ content \in TextsUpTo(ChunkAlphabet, MaxContentLen)
    /\ max_chunk_chars \in 0..MaxChunkChars
    /\ chunks = <<>>
    /\ BatcherIdle /\ RetryIdle /\ MergerIdle /\ GuardIdle /\ PipelineIdle

ChunkLargeDocument ==
    /\ pc = "chunk_call"
    /\ chunks' = chunk_large_document(filename, content, max_chunk_chars)
    /\ pc' = "chunk_done"
    /\ UNCHANGED <<filename, content, max_chunk_chars>>
    /\ UNCHANGED <<batcherVars, retryVars, mergerVars, guardVars, pipelineVars>>

ChunkerNext == ChunkLargeDocument

SpecChunker == ChunkerInit /\ [][ChunkerNext]_vars

(***************************************************************************)
(* Batcher as a state machine: generate_chronology up to total_batches     *)
(***************************************************************************)
BatcherInit ==
    /\ pc = "read_done"
    /\ documents \in DocumentLists
    /\ max_batch_tokens \in 0..MaxBatchTokens
    /\ batches = <<>>
    /\ ChunkerIdle /\ RetryIdle /\ MergerIdle /\ GuardIdle /\ PipelineIdle

\* not documents
HasNoDocumentsNever(docs) == FALSE

HasNoDocuments(docs) == docs = <<>>

\* if not documents: return {'success': False, ...}
NoDocuments ==
    /\ pc = "read_done"
    /\ HasNoDocuments(documents)
    /\ gen_result' = Result("returned", FALSE,
                            "No extracted text files found", NoOutcome, <<>>)
    /\ pc' = "no_documents"
    /\ UNCHANGED <<chunkerVars, batcherVars, retryVars, mergerVars, guardVars,
                   indexVars, verifyVars>>
    /\ UNCHANGED <<rules_file, rules, prompt, call_log, batch_num,
                   batch_results, files_written>>

CreateBatches ==
    /\ pc = "read_done"
    /\ ~HasNoDocuments(documents)
    /\ batches' = BatchDocuments(documents, max_batch_tokens)
    /\ pc' = "batch_done"
    /\ UNCHANGED <<documents, max_batch_tokens>>
    /\ UNCHANGED <<chunkerVars, retryVars, mergerVars, guardVars, pipelineVars>>

BatcherNext == NoDocuments \/ CreateBatches

SpecBatcher == BatcherInit /\ [][BatcherNext]_vars

(***************************************************************************)
(* Claims about the Batcher                                                *)
(***************************************************************************)
RECURSIVE Flatten(_)
Flatten(lists) ==
    IF lists = <<>> THEN <<>> ELSE Head(lists) \o Flatten(Tail(lists))

RECURSIVE BatchTokens(_)
BatchTokens(batch) ==
    IF batch = <<>> THEN 0
    ELSE (Len(Head(batch).content) \div 4) + BatchTokens(Tail(batch))

\* C1: for a non-empty input the batches, concatenated in order, are exactly
\* the input sequence of documents, and no batch is empty.
BatcherCoverage ==
    pc = "batch_done" =>
        /\ Flatten(batches) = documents
        /\ \A b \in 1..Len(batches) : batches[b] # <<>>

BatcherCoverageWitness ==
    /\ pc = "batch_done"
    /\ Len(batches) >= 2
    /\ \E b \in 1..Len(batches) : Len(batches[b]) >= 2

\* C2: every batch either has an estimated token sum within the budget or
\* is a single item whose own estimate exceeds the budget.
BatcherBudget ==
    pc = "batch_done" =>
        \A b \in 1..Len(batches) :
            \/ BatchTokens(batches[b]) <= max_batch_tokens
            \/ /\ Len(batches[b]) = 1
               /\ Len(batches[b][1].content) \div 4 > max_batch_tokens

BatcherBudgetWitness ==
    /\ pc = "batch_done"
    /\ \E b \in 1..Len(batches) :
           Len(batches[b]) >= 2 /\ BatchTokens(batches[b]) = max_batch_tokens
    /\ \E b \in 1..Len(batches) :
           Len(batches[b]) = 1 /\ BatchTokens(batches[b]) > max_batch_tokens

(***************************************************************************)
(* Claims about the Chunker                                                *)
(***************************************************************************)
\* every run of whitespace collapsed to one space
RECURSIVE CollapseRuns(_)
CollapseRuns(s) ==
    IF s = <<>> THEN <<>>
    ELSE IF Head(s) \in Whitespace
         THEN <<" ">> \o CollapseRuns(LStrip(s))
         ELSE <<Head(s)>> \o CollapseRuns(Tail(s))

\* whitespace-normalized text: runs collapsed, both ends trimmed
Normalized(s) == CollapseRuns(Strip(s))

ChunkContents == [i \in 1..Len(chunks) |-> chunks[i].content]

JoinedChunks == JoinWith(ChunkContents, <<" ">>)

\* C3 as stated: for every document, within the limit or split, the chunk
\* contents joined with single spaces are the whitespace-normalized content.
ChunkReconstructionAsClaimed ==
    pc = "chunk_done" => JoinedChunks = Normalized(content)

\* C3 as amended: a document that exceeds the limit is reproduced
\* whitespace-normalized; a document within the limit is reproduced as it is,
\* so in every case the join and the content agree after normalization.
ChunkReconstruction ==
    pc = "chunk_done" =>
        /\ Len(content) > max_chunk_chars => JoinedChunks = Normalized(content)
        /\ Len(content) <= max_chunk_chars => JoinedChunks = content
        /\ Normalized(JoinedChunks) = Normalized(content)

ChunkReconstructionWitness ==
    /\ pc = "chunk_done"
    /\ Len(content) > max_chunk_chars
    /\ Len(chunks) >= 2
    /\ content # Normalized(content)
    /\ \E i \in 1..Len(chunks) : \E j \in 1..Len(chunks[i].content) :
           chunks[i].content[j] = " "

\* C4: at least one chunk is returned, and when the content exceeds the
\* limit every returned chunk has non-empty content.
ChunkerNeverEmpty ==
    pc = "chunk_done" =>
        /\ Len(chunks) >= 1
        /\ Len(content) > max_chunk_chars =>
               \A i \in 1..Len(chunks) : chunks[i].content # <<>>

\* C5: every chunk is at most max_chunk_chars long, except a chunk that is
\* exactly one word whose own length exceeds the limit.
ChunkSizeBound ==
    pc = "chunk_done" =>
        \A i \in 1..Len(chunks) :
            \/ Len(chunks[i].content) <= max_chunk_chars
            \/ /\ chunks[i].content # <<>>
               /\ \A j \in 1..Len(chunks[i].content) :
                      chunks[i].content[j] \notin Whitespace

ChunkSizeBoundWitness ==
    /\ pc = "chunk_done"
    /\ Len(chunks) >= 2
    /\ \E i \in 1..Len(chunks) : Len(chunks[i].content) > max_chunk_chars
    /\ \E i \in 1..Len(chunks) :
           /\ chunks[i].content # <<>>
           /\ Len(chunks[i].content) <= max_chunk_chars

\* C6: when len(content) <= max_chunk_chars the result is the one document,
\* file name and content unchanged.
ChunkerIdentityWithinLimit ==
    (pc = "chunk_done" /\ Len(content) <= max_chunk_chars) =>
        chunks = <<[filename |-> filename, content |-> content]>>

ChunkerIdentityWitness ==
    /\ pc = "chunk_done"
    /\ Len(content) = max_chunk_chars
    /\ content # Normalized(content)
    /\ Len(chunks) = 1
    /\ chunks[1].content = content

(***************************************************************************)
(* Retry engine as a state machine: one call of _call_api_with_retry.      *)
(* pc is one of Attempting, RetryWait, Success, Failed.                    *)
(***************************************************************************)
\* What self.client.messages.create can do.  kind "ok" is a response whose
\* content[0].text is text; kind "api_error" is an APIError/APIStatusError
\* and kind "exception" any other exception.  message is str(e).lower(),
\* kept as the set of the substrings the handler looks for that occur in
\* it; signal is what the service reported.
ServiceResponse(kind, signal, message, text) ==
    [kind |-> kind, signal |-> signal, message |-> message, text |-> text]

NoResponse == ServiceResponse("none", "none", {}, <<>>)

ResponseTexts == {<<"o", "k">>, <<" ", "o", "k", "\n">>, <<>>}

ServiceErrors ==
    { \* 529 overloaded_error "Overloaded"
      ServiceResponse("api_error", "overload", {"overload"}, <<>>),
      \* 429 rate_limit_error
      ServiceResponse("api_error", "rate_limit", {"429", "rate"}, <<>>),
      \* 500 api_error "Internal server error"
      ServiceResponse("api_error", "other", {"500", "api_error"}, <<>>),
      \* 400 invalid_request_error, or APIConnectionError "Connection error."
      ServiceResponse("api_error", "other", {}, <<>>),
      \* 400 invalid_request_error whose text has the word "generate"
      ServiceResponse("api_error", "other", {"rate"}, <<>>),
      \* IndexError: response.content is empty
      ServiceResponse("exception", "other", {}, <<>>),
      \* an exception outside the API error classes that says "overloaded"
      ServiceResponse("exception", "other", {"overload"}, <<>>) }

ServiceResponses ==
    {ServiceResponse("ok", "none", {}, t) : t \in ResponseTexts}
        \cup ServiceErrors

\* what an auditor may answer: an issue, the phrase asked for when there is
\* none, nothing, or an issue followed by the phrase
NoIssuesPhrase ==
    <<"N", "o", " ", "i", "s", "s", "u", "e", "s", " ", "f", "o", "u", "n",
      "d">>

IssueText == <<"b", "a", "d">>

AuditTexts ==
    {IssueText, NoIssuesPhrase \o <<".">>, <<>>,
     IssueText \o <<"\n">> \o NoIssuesPhrase \o <<".">>}

\* the successful responses to a prompt of the given kind
ServiceReplies(kind) ==
    {ServiceResponse("ok", "none", {}, t) :
        t \in IF kind = "audit" THEN AuditTexts ELSE ResponseTexts}

Outcome(kind, text, retries, cause) ==
    [kind |-> kind, text |-> text, retries |-> retries, cause |-> cause]

\* response.content[0].text.strip()
ResponseTextRaw(r) == r.text

ResponseText(r) == Strip(r.text)

RetryInit ==
    /\ pc = "Attempting"
    /\ max_retries \in 0..MaxRetries
    /\ attempt = 0
    /\ responses = <<>>
    /\ waits = <<>>
    /\ delay = 0
    /\ outcome = Outcome("pending", <<>>, 0, NoResponse)
    /\ ChunkerIdle /\ BatcherIdle /\ MergerIdle /\ GuardIdle /\ PipelineIdle

RetryOthersUnchanged ==
    UNCHANGED <<max_retries, chunkerVars, batcherVars, mergerVars, guardVars,
                pipelineVars>>

\* return response.content[0].text.strip()
RequestSucceeds ==
    /\ pc = "Attempting"
    /\ attempt < max_retries
    /\ \E r \in ServiceReplies(prompt.kind) :
          /\ responses' = Append(responses, r)
          /\ outcome' = Outcome("returned", ResponseText(r), 0, NoResponse)
    /\ pc' = "Success"
    /\ UNCHANGED <<attempt, waits, delay>>
    /\ RetryOthersUnchanged

\* except (APIError, APIStatusError), retryable, retries left:
\* compute the delay and sleep
RequestRetried ==
    /\ pc = "Attempting"
    /\ attempt < max_retries
    /\ \E r \in ServiceResponses, jitter \in 0..(JitterRes - 1) :
          /\ r.kind = "api_error"
          /\ IsOverload(r.message) \/ IsRateLimit(r.message)
          /\ HasRetriesLeft(attempt, max_retries)
          /\ responses' = Append(responses, r)
          /\ delay' = BackoffDelay(attempt, jitter)
          /\ waits' = Append(waits, BackoffDelay(attempt, jitter))
    /\ pc' = "RetryWait"
    /\ UNCHANGED <<attempt, outcome>>
    /\ RetryOthersUnchanged

\* time.sleep(delay) returns; continue with the next attempt
SleepDone ==
    /\ pc = "RetryWait"
    /\ attempt' = attempt + 1
    /\ delay' = 0
    /\ pc' = "Attempting"
    /\ UNCHANGED <<responses, waits, outcome>>
    /\ RetryOthersUnchanged

\* retryable on the last attempt:
\* raise Exception(f"API call failed after {max_retries} retries: {e}")
RequestRetriesExhausted ==
    /\ pc = "Attempting"
    /\ attempt < max_retries
    /\ \E r \in ServiceResponses :
          /\ r.kind = "api_error"
          /\ IsOverload(r.message) \/ IsRateLimit(r.message)
          /\ ~HasRetriesLeft(attempt, max_retries)
          /\ responses' = Append(responses, r)
          /\ outcome' = Outcome("wrapped", <<>>, max_retries, r)
    /\ pc' = "Failed"
    /\ UNCHANGED <<attempt, waits, delay>>
    /\ RetryOthersUnchanged

\* other API errors: raise
RequestNotRetryable ==
    /\ pc = "Attempting"
    /\ attempt < max_retries
    /\ \E r \in ServiceResponses :
          /\ r.kind = "api_error"
          /\ ~(IsOverload(r.message) \/ IsRateLimit(r.message))
          /\ responses' = Append(responses, r)
          /\ outcome' = Outcome("raised", <<>>, 0, r)
    /\ pc' = "Failed"
    /\ UNCHANGED <<attempt, waits, delay>>
    /\ RetryOthersUnchanged

\* except Exception: raise
RequestUnexpected ==
    /\ pc = "Attempting"
    /\ attempt < max_retries
    /\ \E r \in ServiceResponses :
          /\ r.kind = "exception"
          /\ responses' = Append(responses, r)
          /\ outcome' = Outcome("raised", <<>>, 0, r)
    /\ pc' = "Failed"
    /\ UNCHANGED <<attempt, waits, delay>>
    /\ RetryOthersUnchanged

\* the for loop ends without return or raise:
\* raise Exception(f"API call failed after {max_retries} attempts")
LoopExhausted ==
    /\ pc = "Attempting"
    /\ attempt >= max_retries
    /\ outcome' = Outcome("wrapped", <<>>, max_retries, NoResponse)
    /\ pc' = "Failed"
    /\ UNCHANGED <<attempt, responses, waits, delay>>
    /\ RetryOthersUnchanged

RetryNext ==
    \/ RequestSucceeds
    \/ RequestRetried
    \/ SleepDone
    \/ RequestRetriesExhausted
    \/ RequestNotRetryable
    \/ RequestUnexpected
    \/ LoopExhausted

SpecRetry == RetryInit /\ [][RetryNext]_vars

\* the call runs on: the request is answered, time.sleep returns
SpecRetryLive == SpecRetry /\ WF_vars(RetryNext)

(***************************************************************************)
(* Claims about the retry engine                                           *)
(***************************************************************************)
\* the service signalled overload or rate limiting with an API error
SignalledRetryable(r) ==
    r.kind = "api_error" /\ r.signal \in {"overload", "rate_limit"}

\* an error the handler does not retry, spelled out on the error itself
ReportedOther(r) ==
    \/ r.kind = "exception"
    \/ /\ r.kind = "api_error"
       /\ {"overload", "429", "rate"} \cap r.message = {}
       /\ ~({"500", "api_error"} \subseteq r.message)

\* C7: when every attempt fails with an overload or rate-limit error and
\* max_retries = N >= 1, the call ends after exactly N requests and exactly
\* N-1 waits, none pending, with a wrapped error that names N.
RetryExhaustion ==
    (/\ max_retries >= 1
     /\ \A i \in 1..Len(responses) : SignalledRetryable(responses[i]))
    =>
       /\ Len(responses) <= max_retries
       /\ Len(waits) <= max_retries - 1
       /\ pc \in {"Attempting", "RetryWait", "Failed"}
       /\ pc = "Failed" =>
              /\ Len(responses) = max_retries
              /\ Len(waits) = max_retries - 1
              /\ outcome.kind = "wrapped"
              /\ outcome.retries = max_retries
              /\ outcome.cause = responses[max_retries]
       /\ Len(responses) = max_retries => pc = "Failed"

RetryExhaustionWitness ==
    /\ pc = "Failed"
    /\ max_retries = 3
    /\ Len(responses) = 3
    /\ \A i \in 1..3 : SignalledRetryable(responses[i])
    /\ Len(waits) = 2

\* C8: the wait after the failed attempt a (0-based) is 2 * 2^a + jitter
\* with 0 <= jitter < 1 second, so the waits of a call never decrease.
BackoffDelays ==
    /\ \A i \in 1..Len(waits) :
          /\ waits[i] >= 2 * Pow2(i - 1) * JitterRes
          /\ waits[i] < 2 * Pow2(i - 1) * JitterRes + JitterRes
    /\ \A i, j \in 1..Len(waits) : i < j => waits[i] <= waits[j]

BackoffDelaysWitness ==
    /\ Len(waits) >= 2
    /\ waits[1] = 2 * JitterRes + (JitterRes - 1)
    /\ waits[2] = 4 * JitterRes

Entry0301 == <<"0", "3", "/", "0", "1", "/", "2", "0", "2", "3", " ", "A">>

Entry0130 == <<"0", "1", "/", "3", "0", "/", "2", "0", "2", "3", " ", "B">>

Entry0519 == <<"0", "5", "/", "1", "9", "/", "2", "0", "2", "5", " ", "C">>

EntryUndated == <<"N", "o", "t", "e", " ", "N">>

Entry0130Short == <<"1", "/", "3", "0", "/", "2", "0", "2", "3", " ", "D">>

EntryInvalid == <<"0", "2", "/", "3", "0", "/", "2", "0", "2", "3", " ", "E">>

EntryPool ==
    {Entry0301, Entry0130, Entry0519, EntryUndated, Entry0130Short,
     EntryInvalid}

BlankLine == <<"\n", "\n">>

\* how the batch outputs are separated and wrapped: separator, text before
\* the first entry, text after the last
Layouts ==
    { <<BlankLine, <<>>, <<>>>>,
      <<BlankLine, <<" ">>, <<"\n">>>>,
      <<BlankLine \o <<" ">> \o BlankLine, <<>>, <<>>>>,
      <<BlankLine \o <<"\n">>, <<"\n">>, BlankLine>> }

MergerTexts ==
    UNION {{layout[2] \o JoinWith(es, layout[1]) \o layout[3] :
                es \in [1..k -> EntryPool], layout \in Layouts} :
           k \in 0..MaxEntries}

MergerInit ==
    /\ pc = "sort_call"
    /\ entries_text \in MergerTexts
    /\ sorted_text = <<>>
    /\ ChunkerIdle /\ BatcherIdle /\ RetryIdle /\ PipelineIdle /\ GuardIdle

SortEntriesChronologically ==
    /\ pc = "sort_call"
    /\ sorted_text' = sort_entries_chronologically(entries_text)
    /\ pc' = "sort_done"
    /\ UNCHANGED entries_text
    /\ UNCHANGED <<chunkerVars, batcherVars, retryVars, pipelineVars,
                   guardVars>>

MergerNext == SortEntriesChronologically

SpecMerger == MergerInit /\ [][MergerNext]_vars

(***************************************************************************)
(* Claims about the Merger                                                 *)
(***************************************************************************)
\* the leading date of an entry as one number yyyymmdd, 0 for an entry
\* without a valid leading date
DayNumber(entry) ==
    LET date == parse_entry_date(entry)
    IN IF date = <<>> THEN 0
       ELSE date[1] * 10000 + date[2] * 100 + date[3]

RECURSIVE DayNumbers(_)
DayNumbers(entries) ==
    IF entries = <<>> THEN <<>>
    ELSE <<DayNumber(Head(entries))>> \o DayNumbers(Tail(entries))

\* the entries in the claimed order: those with a valid leading date by
\* date, equal dates by arrival, then the undated ones by arrival.  The
\* place of entry i is one more than the number of entries that go before.
ClaimedOrderOf(entries) ==
    LET n == Len(entries)
        key == DayNumbers(entries)
        GoesBefore(j, i) ==
            IF key[i] = 0 THEN key[j] # 0 \/ j < i
            ELSE key[j] # 0 /\ (key[j] < key[i] \/ (key[j] = key[i] /\ j < i))
        Place(i) == 1 + Cardinality({j \in 1..n : GoesBefore(j, i)})
    IN [p \in 1..n |-> entries[CHOOSE i \in 1..n : Place(i) = p]]

InputEntries == Entries(entries_text)

ClaimedOrder == ClaimedOrderOf(InputEntries)

\* C10 as stated: for any input text the output is the blank-line join of
\* the dated entries in ascending date order (equal dates in arrival order)
\* followed by the undated entries in arrival order.
MergerSortAsClaimed ==
    pc = "sort_done" => sorted_text = JoinWith(ClaimedOrder, BlankLine)

\* C10 as amended: the same for any input text that has at least one
\* non-blank entry; a text without one is returned unchanged.
MergerSortCorrect ==
    pc = "sort_done" =>
        LET entries == InputEntries
        IN IF entries # <<>>
           THEN sorted_text = JoinWith(ClaimedOrderOf(entries), BlankLine)
           ELSE sorted_text = entries_text

MergerSortWitness ==
    /\ pc = "sort_done"
    /\ InputEntries = <<Entry0301, Entry0130, Entry0519, EntryUndated>>
    /\ sorted_text =
           JoinWith(<<Entry0130, Entry0301, Entry0519, EntryUndated>>,
                    BlankLine)

\* how many times e occurs in the sequence
Occurrences(seq, e) == Cardinality({i \in 1..Len(seq) : seq[i] = e})

\* C11: the non-blank trimmed entries of the output are, as a multiset,
\* the non-blank trimmed entries of the input, dated or not.
MergerKeepsEntries ==
    pc = "sort_done" =>
        LET input == Entries(entries_text)
            output == Entries(sorted_text)
        IN /\ Len(output) = Len(input)
           /\ \A i \in 1..Len(input) :
                  Occurrences(output, input[i]) = Occurrences(input, input[i])

MergerKeepsEntriesWitness ==
    /\ pc = "sort_done"
    /\ LET input == Entries(entries_text)
           output == Entries(sorted_text)
       IN /\ Len(input) = 4
          /\ input # output
          /\ Occurrences(input, Entry0301) = 2
          /\ Occurrences(input, EntryInvalid) = 1
          /\ Occurrences(input, EntryUndated) = 1

(***************************************************************************)
(* _read_extracted_files                                                   *)
(***************************************************************************)
\* documents.extend(chunks)
ExtendDocumentsFirstOnly(docs, new_chunks) ==
    IF new_chunks = <<>> THEN docs ELSE Append(docs, new_chunks[1])

ExtendDocuments(docs, new_chunks) == docs \o new_chunks

\* for txt_file in sorted(input_path.glob('*.txt')): a file that cannot be
\* read raises inside the try and is skipped
RECURSIVE ReadFiles(_, _, _)
ReadFiles(fs, limit, docs) ==
    IF fs = <<>> THEN docs
    ELSE IF Head(fs).readable
         THEN ReadFiles(Tail(fs), limit,
                        ExtendDocuments(docs,
                            chunk_large_document(Head(fs).name,
                                                 Head(fs).content, limit)))
         ELSE ReadFiles(Tail(fs), limit, docs)

read_extracted_files(fs, limit) == ReadFiles(fs, limit, <<>>)

(***************************************************************************)
(* DateIndexer: _map_dates_to_documents                                    *)
(***************************************************************************)
\* the length of the text matched by the three groups
MatchLength(groups) == Len(groups[1]) + Len(groups[2]) + 6

\* re.finditer(date_pattern, content): the groups of the matches found
\* scanning from position p, each search resuming behind the last match
RECURSIVE FindDatesFrom(_, _)
FindDatesFrom(s, p) ==
    IF p > Len(s) THEN <<>>
    ELSE LET groups == MatchLeadingDate(SubSeq(s, p, Len(s)))
         IN IF groups = <<>> THEN FindDatesFrom(s, p + 1)
            ELSE <<groups>> \o FindDatesFrom(s, p + MatchLength(groups))

\* the decimal digits of n, zero-padded to width
RECURSIVE Padded(_, _)
Padded(n, width) ==
    IF width = 0 THEN <<>>
    ELSE Append(Padded(n \div 10, width - 1), Digits[(n % 10) + 1])

\* date_obj.strftime('%m/%d/%Y')
FormatDateUnpadded(year, month, day) ==
    Decimal(month) \o <<"/">> \o Decimal(day) \o <<"/">> \o Decimal(year)

FormatDate(year, month, day) ==
    Padded(month, 2) \o <<"/">> \o Padded(day, 2) \o <<"/">>
        \o Padded(year, 4)

\* the date_str of one match, or <<>> when datetime raises ValueError
NormalizedDate(groups) ==
    LET month == IntOf(groups[1])
        day == IntOf(groups[2])
        year == IntOf(groups[3])
    IN IF ValidDate(year, month, day) THEN FormatDate(year, month, day)
       ELSE <<>>

\* found_dates
FoundDates(text) ==
    LET matches == FindDatesFrom(text, 1)
    IN {NormalizedDate(matches[i]) : i \in 1..Len(matches)} \ {<<>>}

\* for date_str in found_dates: date_map[date_str].append(doc)
AddToDateMap(map, doc) ==
    LET found_dates == FoundDates(doc.content)
    IN [date_str \in (DOMAIN map) \cup found_dates |->
           IF date_str \in found_dates
           THEN Append(IF date_str \in DOMAIN map THEN map[date_str]
                       ELSE <<>>, doc)
           ELSE map[date_str]]

RECURSIVE MapDates(_, _)
MapDates(docs, map) ==
    IF docs = <<>> THEN map
    ELSE MapDates(Tail(docs), AddToDateMap(map, Head(docs)))

map_dates_to_documents(docs) == MapDates(docs, <<>>)

\* date_map.get(date_str, [])
DateMapGet(map, date_str) ==
    IF date_str \in DOMAIN map THEN map[date_str] ELSE <<>>

(***************************************************************************)
(* DateIndexer as a state machine: the documents of a directory are read   *)
(* (and chunked) and then indexed, as verify_chronology does.              *)
(***************************************************************************)
TextFile(name, text, readable) ==
    [name |-> name, content |-> text, readable |-> readable]

Date0320 == <<"0", "3", "/", "2", "0", "/", "2", "0", "2", "3">>

Date0205Short == <<"2", "/", "5", "/", "2", "0", "2", "4">>

Date0205 == <<"0", "2", "/", "0", "5", "/", "2", "0", "2", "4">>

DateInvalid == <<"0", "2", "/", "3", "0", "/", "2", "0", "2", "4">>

DateOverlong == <<"1", "3", "/", "4", "/", "2", "0", "2", "3">>

PlainWord == <<"x", "x">>

Date0110 == <<"0", "1", "/", "1", "0", "/", "2", "0", "2", "3">>

Date0215 == <<"0", "2", "/", "1", "5", "/", "2", "0", "2", "3">>

IndexWords ==
    {Date0320, Date0205Short, Date0205, DateInvalid, DateOverlong, PlainWord}

\* the texts of up to MaxWords words, separated by single spaces
WordTexts ==
    UNION {{JoinWith(ws, <<" ">>) : ws \in [1..k -> IndexWords]} :
           k \in 0..MaxWords}

FileA == TextFile(<<"A">>, Date0110, TRUE)

FileB == TextFile(<<"B">>, Date0215, TRUE)

FileC(text) == TextFile(<<"C">>, text, TRUE)

IndexFileSets ==
    UNION {{<<FileC(text)>>,
            <<FileA, FileB, FileC(text)>>,
            <<FileA, TextFile(<<"B">>, Date0215, FALSE), FileC(text)>>} :
           text \in WordTexts}

IndexerInit ==
    /\ pc = "index_start"
    /\ files \in IndexFileSets
    /\ max_chunk_chars \in {SmallChunkChars, LargeChunkChars}
    /\ documents = <<>>
    /\ date_map = <<>>
    /\ filename = <<>> /\ content = <<>> /\ chunks = <<>>
    /\ max_batch_tokens = 0 /\ batches = <<>>
    /\ RetryIdle /\ MergerIdle /\ GuardIdle /\ GenerateIdle /\ VerifyIdle

\* documents = self._read_extracted_files(extracted_dir)
ReadExtractedFiles ==
    /\ pc = "index_start"
    /\ documents' = read_extracted_files(files, max_chunk_chars)
    /\ pc' = "files_read"
    /\ UNCHANGED <<filename, content, max_chunk_chars, chunks,
                   max_batch_tokens, batches, retryVars, mergerVars, guardVars,
                   indexVars, generateVars, verifyVars>>

\* date_map = self._map_dates_to_documents(documents)
MapDatesToDocuments ==
    /\ pc = "files_read"
    /\ date_map' = map_dates_to_documents(documents)
    /\ pc' = "index_done"
    /\ UNCHANGED <<chunkerVars, batcherVars, retryVars, mergerVars, guardVars, files,
                   generateVars, verifyVars>>

IndexerNext == ReadExtractedFiles \/ MapDatesToDocuments

SpecIndexer == IndexerInit /\ [][IndexerNext]_vars

(***************************************************************************)
(* Claims about the DateIndexer                                            *)
(***************************************************************************)
\* where a digit{1,2}/digit{1,2}/digit{4} match starting at p ends, 0 when
\* none starts there
TokenEnd(s, p) ==
    LET rest == SubSeq(s, p, Len(s))
    IN IF \E m \in 1..2, d \in 1..2 : DateMatchAt(rest, m, d)
       THEN LET md == CHOOSE md \in (1..2) \X (1..2) :
                          DateMatchAt(rest, md[1], md[2])
            IN p + md[1] + md[2] + 5
       ELSE 0

\* the positions where the date tokens of s start: a match that no token
\* starting further left runs into
TokenStarts(s) ==
    LET ends == [p \in 1..Len(s) |-> TokenEnd(s, p)]
        tok[p \in 0..Len(s)] ==
            IF p = 0 THEN FALSE
            ELSE /\ ends[p] # 0
                 /\ \A q \in 1..(p - 1) : ~(tok[q] /\ ends[q] >= p)
    IN {p \in 1..Len(s) : tok[p]}

\* two digits of a one- or two-digit number
TwoDigits(n) == <<Digits[(n \div 10) + 1], Digits[(n % 10) + 1]>>

\* the MM/DD/YYYY key of the token of s at p, <<>> when it is not a date of
\* the calendar
TokenKey(s, p) ==
    LET groups == MatchLeadingDate(SubSeq(s, p, Len(s)))
        month == IntOf(groups[1])
        day == IntOf(groups[2])
    IN IF ValidDate(IntOf(groups[3]), month, day)
       THEN TwoDigits(month) \o <<"/">> \o TwoDigits(day) \o <<"/">>
                \o groups[3]
       ELSE <<>>

TokenKeys(s) == {TokenKey(s, p) : p \in TokenStarts(s)} \ {<<>>}

\* C12: a document is listed under DateIndex[k] exactly once if its content
\* has a date token that is a valid calendar date normalizing to k, and not
\* at all otherwise.
DateIndexContents ==
    pc = "index_done" =>
        LET keys == [i \in 1..Len(documents) |->
                        TokenKeys(documents[i].content)]
            allKeys == (DOMAIN date_map)
                           \cup UNION {keys[i] : i \in 1..Len(documents)}
        IN \A i \in 1..Len(documents) : \A k \in allKeys :
               Occurrences(DateMapGet(date_map, k), documents[i])
                   = IF k \in keys[i] THEN 1 ELSE 0

DateIndexContentsWitness ==
    /\ pc = "index_done"
    /\ Len(documents) = 3
    /\ documents[3].content = Date0205Short \o <<" ">> \o Date0205
    /\ DOMAIN date_map = {Date0110, Date0215, Date0205}
    /\ date_map[Date0205] = <<documents[3]>>

ChunksOfC ==
    chunk_large_document(files[3].name, files[3].content, max_chunk_chars)

IndexScenario ==
    /\ pc = "index_done"
    /\ files[1] = FileA /\ files[2] = FileB
    /\ Len(ChunksOfC) >= 2
    /\ TokenKeys(files[3].content) = {Date0320}

\* C14 as stated: with A, B and an oversized C that mentions 03/20/2023 and
\* is split into several chunks, the index has exactly three keys and the
\* key 03/20/2023 maps to every chunk of C.
ChunkedIndexAsClaimed ==
    (Len(files) = 3 /\ IndexScenario) =>
        /\ Cardinality(DOMAIN date_map) = 3
        /\ DateMapGet(date_map, Date0320) = ChunksOfC

\* C14 as amended: the index has exactly three keys and the key 03/20/2023
\* maps to exactly the chunks of C that contain the date, in order: at
\* least one chunk, and not the chunks that hold none of its mentions.
ChunkedIndex ==
    (Len(files) = 3 /\ IndexScenario) =>
        /\ DOMAIN date_map = {Date0110, Date0215, Date0320}
        /\ DateMapGet(date_map, Date0320) # <<>>
        /\ DateMapGet(date_map, Date0320)
               = SelectSeq(ChunksOfC,
                           LAMBDA c : Date0320 \in TokenKeys(c.content))

ChunkedIndexWitness ==
    /\ Len(files) = 3 /\ IndexScenario
    /\ Len(ChunksOfC) = 3
    /\ Len(date_map[Date0320]) = 2

(***************************************************************************)
(* generate_chronology and _process_batch                                  *)
(***************************************************************************)
\* the text returned when .claude/CLAUDE.md does not exist
FallbackRules == "Generate a medical chronology from the provided documents."

\* the local rules of _process_batch
CondensedRules == "Create medical chronology entries following these rules"

\* _load_rules
load_rules(file) == IF file.exists THEN file.text ELSE FallbackRules

\* the prompt of _process_batch: {len(documents)}, {rules}, {documents_text}
BatchPrompt(batch) == Prompt("generate", CondensedRules, batch, <<>>)

\* enumerate(batches, 1): the batch of a batch number
BatchAtReversed(all, n) == all[Len(all) + 1 - n]

BatchAt(all, n) == all[n]

\* header
ChronologyHeader ==
    <<"M", "E", "D", "I", "C", "A", "L", " ", "R", "E", "C", "O", "R", "D",
      "S", " ", "S", "U", "M", "M", "A", "R", "Y", "\n", "[", "P", "a", "t",
      "i", "e", "n", "t", " ", "N", "a", "m", "e", " ", "-", " ", "S", "e",
      "e", " ", "R", "e", "c", "o", "r", "d", "s", "]", "\n", "D", "a", "t",
      "e", " ", "o", "f", " ", "B", "i", "r", "t", "h", ":", " ", "[", "S",
      "e", "e", " ", "R", "e", "c", "o", "r", "d", "s", "]", "\n", "D", "a",
      "t", "e", " ", "o", "f", " ", "I", "n", "j", "u", "r", "y", ":", " ",
      "[", "S", "e", "e", " ", "R", "e", "c", "o", "r", "d", "s", "]", "\n",
      "\n">>

\* chronology_md = header + combined_entries, combined_entries being the
\* sorted join of batch_results
ChronologyMd(results) ==
    ChronologyHeader
        \o sort_entries_chronologically(JoinWith(results, BlankLine))

\* the four files written to output_dir
OutputFile(name, text, n_documents, n_batches) ==
    [name |-> name, text |-> text, documents |-> n_documents,
     batches |-> n_batches]

OutputFiles(results, docs, all) ==
    <<OutputFile("chronology.md", ChronologyMd(results), 0, 0),
      OutputFile("chronology.json", ChronologyMd(results), Len(docs),
                 Len(all)),
      OutputFile("summary.md", <<>>, Len(docs), Len(all)),
      OutputFile("gaps.md", <<>>, Len(docs), Len(all))>>

\* except Exception as e: return {'success': False, 'error': str(e)}
FailureResultWithPartial(exception, partial) ==
    Result("returned", FALSE, "", exception, partial)

FailureResult(exception, partial) ==
    Result("returned", FALSE, "", exception, <<>>)

(***************************************************************************)
(* generate_chronology as a state machine.  Each batch is one call of      *)
(* _call_api_with_retry, taken by the actions of the retry engine.         *)
(***************************************************************************)
RulesFiles ==
    {[exists |-> FALSE, text |-> ""],
     [exists |-> TRUE, text |-> "Rules of this firm"]}

\* a file of the input directory: one small document, one that is split in
\* two chunks, one of whitespace only, one that cannot be read
InputFile(i, variant) ==
    LET name == <<"d">> \o Decimal(i)
    IN CASE variant = 1 -> TextFile(name, <<"x", "x", "x", "x">>, TRUE)
         [] variant = 2 ->
                TextFile(name, <<"x", "x", "x", "x", " ",
                                 "x", "x", "x", "x", "x">>, TRUE)
         [] variant = 3 ->
                TextFile(name, [j \in 1..(GenChunkChars + 1) |-> " "], TRUE)
         [] variant = 4 -> TextFile(name, <<"x", "x", "x", "x">>, FALSE)

InputFileSets ==
    UNION {{[i \in 1..k |-> InputFile(i, variants[i])] :
                variants \in [1..k -> 1..4]} : k \in 0..MaxFiles}

\* a call of _call_api_with_retry as the caller sees it: which turn of the
\* loop made it, its prompt and, once it has returned, the text returned
Call(turn, call_prompt) ==
    [batch_num |-> turn, prompt |-> call_prompt,
     reply |-> [returned |-> FALSE, text |-> <<>>]]

CallReturned(log, text) ==
    [log EXCEPT ![Len(log)].reply = [returned |-> TRUE, text |-> text]]

StartCall ==
    /\ attempt' = 0
    /\ responses' = <<>>
    /\ waits' = <<>>
    /\ delay' = 0
    /\ outcome' = NoOutcome

GenerateInit ==
    /\ pc = "gen_start"
    /\ files \in InputFileSets
    /\ rules_file \in RulesFiles
    /\ max_chunk_chars = GenChunkChars
    /\ max_batch_tokens \in 1..MaxBatchTokens
    /\ max_retries = MaxCallRetries
    /\ documents = <<>> /\ batches = <<>>
    /\ filename = <<>> /\ content = <<>> /\ chunks = <<>>
    /\ attempt = 0 /\ responses = <<>> /\ waits = <<>> /\ delay = 0
    /\ outcome = NoOutcome
    /\ date_map = <<>>
    /\ rules = "" /\ prompt = NoPrompt /\ call_log = <<>> /\ batch_num = 0
    /\ batch_results = <<>> /\ files_written = <<>> /\ gen_result = NoResult
    /\ MergerIdle /\ GuardIdle /\ VerifyIdle

\* rules = self._load_rules(base_dir);
\* documents = self._read_extracted_files(input_dir)
LoadRulesAndRead ==
    /\ pc = "gen_start"
    /\ rules' = load_rules(rules_file)
    /\ documents' = read_extracted_files(files, max_chunk_chars)
    /\ pc' = "read_done"
    /\ UNCHANGED <<chunkerVars, max_batch_tokens, batches, retryVars,
                   mergerVars, guardVars, indexVars, verifyVars>>
    /\ UNCHANGED <<rules_file, prompt, call_log, batch_num, batch_results,
                   files_written, gen_result>>

\* the next turn of for batch_num, batch in enumerate(batches, 1):
\* _process_batch builds the prompt and calls _call_api_with_retry
ProcessBatch ==
    /\ pc = "batch_done"
    /\ batch_num < Len(batches)
    /\ batch_num' = batch_num + 1
    /\ prompt' = BatchPrompt(BatchAt(batches, batch_num + 1))
    /\ call_log' = Append(call_log,
                          Call(batch_num + 1,
                               BatchPrompt(BatchAt(batches, batch_num + 1))))
    /\ StartCall
    /\ pc' = "Attempting"
    /\ UNCHANGED <<max_retries, chunkerVars, batcherVars, mergerVars, guardVars,
                   indexVars, verifyVars>>
    /\ UNCHANGED <<rules_file, rules, batch_results, files_written,
                   gen_result>>

\* batch_results.append(batch_chronology), then the delay between batches
BatchReturned ==
    /\ pc = "Success"
    /\ prompt.kind = "generate"
    /\ batch_results' = Append(batch_results, outcome.text)
    /\ call_log' = CallReturned(call_log, outcome.text)
    /\ pc' = "batch_done"
    /\ UNCHANGED <<chunkerVars, batcherVars, retryVars, mergerVars, guardVars,
                   indexVars, verifyVars>>
    /\ UNCHANGED <<rules_file, rules, prompt, batch_num, files_written,
                   gen_result>>

\* the exception of a failed call reaches except Exception of
\* generate_chronology
BatchRaised ==
    /\ pc = "Failed"
    /\ prompt.kind = "generate"
    /\ gen_result' = FailureResult(outcome, batch_results)
    /\ pc' = "gen_returned"
    /\ UNCHANGED <<chunkerVars, batcherVars, retryVars, mergerVars, guardVars,
                   indexVars, verifyVars>>
    /\ UNCHANGED <<rules_file, rules, prompt, call_log, batch_num,
                   batch_results, files_written>>

\* after the last batch: combine, sort, add the header, write the files
WriteOutputs ==
    /\ pc = "batch_done"
    /\ batch_num >= Len(batches)
    /\ files_written' = OutputFiles(batch_results, documents, batches)
    /\ gen_result' = Result("returned", TRUE, "", NoOutcome,
                            <<"chronology.md", "chronology.json",
                              "summary.md", "gaps.md">>)
    /\ pc' = "gen_returned"
    /\ UNCHANGED <<chunkerVars, batcherVars, retryVars, mergerVars, guardVars,
                   indexVars, verifyVars>>
    /\ UNCHANGED <<rules_file, rules, prompt, call_log, batch_num,
                   batch_results>>

GenerateNext ==
    \/ LoadRulesAndRead
    \/ NoDocuments
    \/ CreateBatches
    \/ ProcessBatch
    \/ RequestSucceeds
    \/ RequestRetried
    \/ SleepDone
    \/ RequestRetriesExhausted
    \/ RequestNotRetryable
    \/ RequestUnexpected
    \/ BatchReturned
    \/ BatchRaised
    \/ WriteOutputs

SpecGenerate == GenerateInit /\ [][GenerateNext]_vars

(***************************************************************************)
(* Claims about generate_chronology                                        *)
(***************************************************************************)
InCall == pc \in {"Attempting", "RetryWait", "Success", "Failed"}

CallFailed == outcome.kind \in {"raised", "wrapped"}

\* C15: the generation calls of a run are made one at a time and in batch
\* order: the k-th call started is the call for batch k with the documents
\* of batch k, and when it is started the responses of the k-1 calls before
\* it have all been received, so that the calls started never exceed the
\* results received by more than the one call in progress.
SequentialGeneration ==
    /\ Len(call_log) \in {Len(batch_results), Len(batch_results) + 1}
    /\ (InCall /\ pc # "Success") => Len(call_log) = Len(batch_results) + 1
    /\ (pc \in {"gen_start", "read_done", "batch_done"})
            => Len(call_log) = Len(batch_results)
    /\ Len(call_log) <= Len(batches)
    /\ Len(call_log) = batch_num
    /\ \A k \in 1..Len(call_log) :
            /\ call_log[k].batch_num = k
            /\ call_log[k].prompt.documents = batches[k]

SequentialGenerationWitness ==
    /\ pc = "RetryWait"
    /\ Len(call_log) = 3
    /\ Len(batch_results) = 2
    /\ batches[1] # batches[2]

\* C16: every generation call's prompt embeds the rules text loaded for
\* the run: the text of the rules file, or the fallback instruction when
\* the file is absent.
RulesInPrompts ==
    \A k \in 1..Len(call_log) :
        call_log[k].prompt.rules = load_rules(rules_file)

NoReadableFile == \A i \in 1..Len(files) : ~files[i].readable

\* C17: when no file of the input can be read, generate_chronology makes
\* no generation call and writes no file, and what it returns is a failure
\* with the error 'No extracted text files found'.
NoInputError ==
    NoReadableFile =>
        /\ call_log = <<>>
        /\ responses = <<>>
        /\ files_written = <<>>
        /\ pc \in {"gen_start", "read_done", "no_documents"}
        /\ pc = "no_documents" =>
                /\ gen_result.kind = "returned"
                /\ ~gen_result.success
                /\ gen_result.error.message = "No extracted text files found"

NoInputErrorWitness ==
    /\ pc = "no_documents"
    /\ Len(files) = MaxFiles
    /\ NoReadableFile

\* C18: once the call for a batch has failed, by exhausted retries or by an
\* error that is not retried, no further call is started, no file is
\* written, and generate_chronology returns a failure that carries the
\* error and none of the narratives of the batches before.
AllOrNothing ==
    CallFailed =>
        /\ pc \in {"Failed", "gen_returned"}
        /\ Len(call_log) = Len(batch_results) + 1
        /\ files_written = <<>>
        /\ pc = "gen_returned" =>
                /\ gen_result.kind = "returned"
                /\ ~gen_result.success
                /\ gen_result.error.exception = outcome
                /\ gen_result.payload = <<>>

AllOrNothingWitness ==
    /\ pc = "gen_returned"
    /\ CallFailed
    /\ Len(batch_results) = 1
    /\ batch_results[1] # <<>>
    /\ Len(batches) = 3

AllOrNothingWrappedWitness ==
    /\ pc = "gen_returned"
    /\ outcome.kind = "wrapped"
    /\ Len(batch_results) >= 1

(***************************************************************************)
(* verify_chronology and _verify_entry_batch                               *)
(***************************************************************************)
\* sub in text
Contains(text, sub) ==
    \E i \in 0..(Len(text) - Len(sub)) :
        SubSeq(text, i + 1, i + Len(sub)) = sub

HeaderMark ==
    <<"M", "E", "D", "I", "C", "A", "L", " ", "R", "E", "C", "O", "R", "D",
      "S", " ", "S", "U", "M", "M", "A", "R", "Y">>

\* if entries and "MEDICAL RECORDS SUMMARY" in entries[0]:
\*     entries = entries[1:]
SkipHeader(entries) ==
    IF entries # <<>> /\ Contains(entries[1], HeaderMark)
    THEN Tail(entries) ELSE entries

\* the entries of the narrative that verify_chronology looks at
NarrativeEntries(text) == SkipHeader(Entries(text))

\* date_str of an entry, or <<>> when the entry joins no group
EntryDateUnchecked(entry) ==
    LET groups == MatchLeadingDate(entry)
    IN IF groups = <<>> THEN <<>>
       ELSE groups[1] \o <<"/">> \o groups[2] \o <<"/">> \o groups[3]

EntryDate(entry) ==
    LET groups == MatchLeadingDate(entry)
    IN IF groups = <<>> THEN <<>> ELSE NormalizedDate(groups)

\* entries_by_date[date_str].append(entry), the dict in insertion order
AddToGroupsAlwaysNew(groups, date_str, entry) ==
    Append(groups, [date_str |-> date_str, entries |-> <<entry>>])

AddToGroups(groups, date_str, entry) ==
    IF \E g \in 1..Len(groups) : groups[g].date_str = date_str
    THEN [g \in 1..Len(groups) |->
            IF groups[g].date_str = date_str
            THEN [groups[g] EXCEPT !.entries = Append(@, entry)]
            ELSE groups[g]]
    ELSE Append(groups, [date_str |-> date_str, entries |-> <<entry>>])

RECURSIVE GroupFrom(_, _)
GroupFrom(entries, groups) ==
    IF entries = <<>> THEN groups
    ELSE LET date_str == EntryDate(Head(entries))
         IN GroupFrom(Tail(entries),
                      IF date_str = <<>> THEN groups
                      ELSE AddToGroups(groups, date_str, Head(entries)))

GroupByDate(entries) == GroupFrom(entries, <<>>)

\* the finding appended for an entry whose date has no source document
NoSourceFinding(date_str) ==
    <<"E", "n", "t", "r", "y", " ", "D", "a", "t", "e", ":", " ">>
    \o date_str \o
    <<"\n", "I", "s", "s", "u", "e", " ", "T", "y", "p", "e", ":", " ", "P",
      "o", "t", "e", "n", "t", "i", "a", "l", " ", "H", "a", "l", "l", "u",
      "c", "i", "n", "a", "t", "i", "o", "n", " ", "(", "N", "o", " ", "S",
      "o", "u", "r", "c", "e", ")", "\n", "D", "e", "s", "c", "r", "i", "p",
      "t", "i", "o", "n", ":", " ", "N", "o", " ", "s", "o", "u", "r", "c",
      "e", " ", "d", "o", "c", "u", "m", "e", "n", "t", "s", " ", "f", "o",
      "u", "n", "d", " ", "c", "o", "n", "t", "a", "i", "n", "i", "n", "g",
      " ", "t", "h", "e", " ", "d", "a", "t", "e", " ">>
    \o date_str \o
    <<".", " ", "T", "h", "i", "s", " ", "e", "n", "t", "r", "y", " ", "m",
      "a", "y", " ", "b", "e", " ", "h", "a", "l", "l", "u", "c", "i", "n",
      "a", "t", "e", "d", " ", "o", "r", " ", "t", "h", "e", " ", "d", "a",
      "t", "e", " ", "i", "s", " ", "i", "n", "c", "o", "r", "r", "e", "c",
      "t", ".", "\n", "S", "e", "v", "e", "r", "i", "t", "y", ":", " ", "C",
      "r", "i", "t", "i", "c", "a", "l", "\n">>

\* for entry in date_entries: verification_results.append(...)
FlagEntriesOnce(results, date_str, date_entries) ==
    Append(results, NoSourceFinding(date_str))

RECURSIVE FlagEntries(_, _, _)
FlagEntries(results, date_str, date_entries) ==
    IF date_entries = <<>> THEN results
    ELSE FlagEntries(Append(results, NoSourceFinding(date_str)), date_str,
                     Tail(date_entries))

\* doc['content'][:15000]
Truncated(docs) ==
    [i \in 1..Len(docs) |->
        [docs[i] EXCEPT !.content =
            SubSeq(@, 1, IF Len(@) < AuditDocChars THEN Len(@)
                         ELSE AuditDocChars)]]

\* the prompt of _verify_entry_batch: {entries_text}, {source_text}
AuditPrompt(date_entries, relevant_docs) ==
    Prompt("audit", "", Truncated(relevant_docs),
           JoinWith(date_entries, BlankLine))

\* if result and "No issues found" not in result
IsFindingAnyText(result) == TRUE

IsFinding(result) == result # <<>> /\ ~Contains(result, NoIssuesPhrase)

NoIssuesMessage ==
    <<"(check mark)", " ", "N", "o", " ", "s", "i", "g", "n", "i", "f", "i",
      "c", "a", "n", "t", " ", "i", "s", "s", "u", "e", "s", " ", "d", "e",
      "t", "e", "c", "t", "e", "d", ".", " ", "A", "l", "l", " ", "e", "n",
      "t", "r", "i", "e", "s", " ", "v", "e", "r", "i", "f", "i", "e", "d",
      " ", "a", "g", "a", "i", "n", "s", "t", " ", "s", "o", "u", "r", "c",
      "e", " ", "d", "o", "c", "u", "m", "e", "n", "t", "s", ".">>

IssuesHeading ==
    <<"#", " ", "(warning sign)", " ", "V", "e", "r", "i", "f", "i", "c",
      "a", "t", "i", "o", "n", " ", "I", "s", "s", "u", "e", "s", " ", "F",
      "o", "u", "n", "d", "\n", "\n">>

\* final_report
FinalReport(results) ==
    IF results = <<>> THEN NoIssuesMessage
    ELSE IssuesHeading \o JoinWith(results, BlankLine)

\* except Exception as e: return {'success': False, 'error': str(e)}
VerifyFailureWithFindings(exception, results) ==
    Result("returned", FALSE, "", exception, FinalReport(results))

VerifyFailure(exception, results) ==
    Result("returned", FALSE, "", exception, <<>>)

(***************************************************************************)
(* verify_chronology as a state machine: the source documents are read and *)
(* indexed, the narrative is grouped by date, and the groups are taken in  *)
(* turn; an audit is one call of _call_api_with_retry.                     *)
(***************************************************************************)
EntryNoSource == <<"1", "2", "/", "1", "2", "/", "2", "0", "1", "2", " ", "F">>

VerifyEntryPool ==
    {Entry0130, Entry0130Short, Entry0301, EntryNoSource, EntryUndated,
     EntryInvalid}

\* narratives of up to MaxVerifyEntries different entries, with and without
\* the header that generate_chronology writes
Narratives ==
    UNION {{h \o JoinWith(es, BlankLine) :
                h \in {<<>>, ChronologyHeader},
                es \in {f \in [1..k -> VerifyEntryPool] :
                            \A i, j \in 1..k : f[i] = f[j] => i = j}} :
           k \in 0..MaxVerifyEntries}

Source0130 ==
    TextFile(<<"A">>, <<"x", "x", "x", "x", "x", " ", "1", "/", "3", "0", "/",
                        "2", "0", "2", "3">>, TRUE)

Source0301 ==
    TextFile(<<"B">>, <<"0", "3", "/", "0", "1", "/", "2", "0", "2", "3",
                        " ", "0", "1", "/", "3", "0", "/", "2", "0", "2",
                        "3">>, TRUE)

VerifyFileSets == {<<>>, <<Source0130>>, <<Source0130, Source0301>>}

VerifyInit ==
    /\ pc = "index_start"
    /\ files \in VerifyFileSets
    /\ chronology_text \in Narratives
    /\ max_chunk_chars = LargeChunkChars
    /\ max_retries = MaxCallRetries
    /\ documents = <<>> /\ date_map = <<>>
    /\ filename = <<>> /\ content = <<>> /\ chunks = <<>>
    /\ max_batch_tokens = 0 /\ batches = <<>>
    /\ attempt = 0 /\ responses = <<>> /\ waits = <<>> /\ delay = 0
    /\ outcome = NoOutcome
    /\ entries_by_date = <<>> /\ processed_dates = 0
    /\ verification_results = <<>> /\ verify_result = NoResult
    /\ MergerIdle /\ GuardIdle /\ GenerateIdle

\* entries = ...; entries_by_date = {...}
GroupEntries ==
    /\ pc = "index_done"
    /\ entries_by_date' = GroupByDate(NarrativeEntries(chronology_text))
    /\ pc' = "group_loop"
    /\ UNCHANGED <<chunkerVars, batcherVars, retryVars, mergerVars, guardVars,
                   indexVars, generateVars>>
    /\ UNCHANGED <<chronology_text, processed_dates, verification_results,
                   verify_result>>

\* a turn of the loop for a date without source documents
FlagNoSource ==
    /\ pc = "group_loop"
    /\ processed_dates < Len(entries_by_date)
    /\ LET group == entries_by_date[processed_dates + 1]
       IN /\ DateMapGet(date_map, group.date_str) = <<>>
          /\ verification_results' =
                FlagEntries(verification_results, group.date_str,
                            group.entries)
    /\ processed_dates' = processed_dates + 1
    /\ UNCHANGED pc
    /\ UNCHANGED <<chunkerVars, batcherVars, retryVars, mergerVars, guardVars,
                   indexVars, generateVars>>
    /\ UNCHANGED <<chronology_text, entries_by_date, verify_result>>

\* a turn of the loop for a date with source documents:
\* _verify_entry_batch builds the prompt and calls _call_api_with_retry
VerifyEntryBatch ==
    /\ pc = "group_loop"
    /\ processed_dates < Len(entries_by_date)
    /\ LET group == entries_by_date[processed_dates + 1]
           relevant_docs == DateMapGet(date_map, group.date_str)
       IN /\ relevant_docs # <<>>
          /\ prompt' = AuditPrompt(group.entries, relevant_docs)
          /\ call_log' = Append(call_log,
                                Call(processed_dates + 1,
                                     AuditPrompt(group.entries,
                                                 relevant_docs)))
    /\ processed_dates' = processed_dates + 1
    /\ StartCall
    /\ pc' = "Attempting"
    /\ UNCHANGED <<max_retries, chunkerVars, batcherVars, mergerVars, guardVars,
                   indexVars>>
    /\ UNCHANGED <<rules_file, rules, batch_num, batch_results,
                   files_written, gen_result>>
    /\ UNCHANGED <<chronology_text, entries_by_date, verification_results,
                   verify_result>>

\* the audit returned: its text is kept when it is a finding
AuditReturned ==
    /\ pc = "Success"
    /\ prompt.kind = "audit"
    /\ verification_results' =
            IF IsFinding(outcome.text)
            THEN Append(verification_results, outcome.text)
            ELSE verification_results
    /\ call_log' = CallReturned(call_log, outcome.text)
    /\ pc' = "group_loop"
    /\ UNCHANGED <<chunkerVars, batcherVars, retryVars, mergerVars, guardVars,
                   indexVars>>
    /\ UNCHANGED <<rules_file, rules, prompt, batch_num, batch_results,
                   files_written, gen_result>>
    /\ UNCHANGED <<chronology_text, entries_by_date, processed_dates,
                   verify_result>>

\* the exception of a failed audit reaches except Exception of
\* verify_chronology
AuditRaised ==
    /\ pc = "Failed"
    /\ prompt.kind = "audit"
    /\ verify_result' = VerifyFailure(outcome, verification_results)
    /\ pc' = "verify_returned"
    /\ UNCHANGED <<chunkerVars, batcherVars, retryVars, mergerVars, guardVars,
                   indexVars, generateVars>>
    /\ UNCHANGED <<chronology_text, entries_by_date, processed_dates,
                   verification_results>>

\* after the last group: compile the final report and return it
CompileReport ==
    /\ pc = "group_loop"
    /\ processed_dates >= Len(entries_by_date)
    /\ verify_result' = Result("returned", TRUE, "", NoOutcome,
                               FinalReport(verification_results))
    /\ pc' = "verify_returned"
    /\ UNCHANGED <<chunkerVars, batcherVars, retryVars, mergerVars, guardVars,
                   indexVars, generateVars>>
    /\ UNCHANGED <<chronology_text, entries_by_date, processed_dates,
                   verification_results>>

VerifyNext ==
    \/ ReadExtractedFiles
    \/ MapDatesToDocuments
    \/ GroupEntries
    \/ FlagNoSource
    \/ VerifyEntryBatch
    \/ RequestSucceeds
    \/ RequestRetried
    \/ SleepDone
    \/ RequestRetriesExhausted
    \/ RequestNotRetryable
    \/ RequestUnexpected
    \/ AuditReturned
    \/ AuditRaised
    \/ CompileReport

SpecVerify == VerifyInit /\ [][VerifyNext]_vars

(***************************************************************************)
(* Claims about verify_chronology                                          *)
(***************************************************************************)
NoSourceMark ==
    <<"(", "N", "o", " ", "S", "o", "u", "r", "c", "e", ")">>

CriticalMark ==
    <<"S", "e", "v", "e", "r", "i", "t", "y", ":", " ", "C", "r", "i", "t", "i", "c", "a", "l">>

EntryDateLabel ==
    <<"E", "n", "t", "r", "y", " ", "D", "a", "t", "e", ":", " ">>

IsNoSourceFindingFor(finding, date_str) ==
    /\ Contains(finding, EntryDateLabel \o date_str)
    /\ Contains(finding, NoSourceMark)
    /\ Contains(finding, CriticalMark)

\* the entries of the narrative whose leading date normalizes to date_str
EntriesDated(date_str) ==
    LET entries == NarrativeEntries(chronology_text)
    IN {i \in 1..Len(entries) : EntryDate(entries[i]) = date_str}

\* C13: for every date group that has been processed and whose date has no
\* document in the date index, the findings collected hold one NoSource
\* finding of severity Critical for each entry of the narrative with that
\* date, and no service call was made for the group.
NoSourceFlagging ==
    \A g \in 1..processed_dates :
        LET date_str == entries_by_date[g].date_str
        IN date_str \notin DOMAIN date_map =>
            /\ Cardinality({i \in 1..Len(verification_results) :
                    IsNoSourceFindingFor(verification_results[i], date_str)})
                  = Cardinality(EntriesDated(date_str))
            /\ \A k \in 1..Len(call_log) : call_log[k].batch_num # g

NoSourceFlaggingWitness ==
    /\ pc = "verify_returned"
    /\ date_map # <<>>
    /\ \E g \in 1..processed_dates :
          /\ entries_by_date[g].date_str \notin DOMAIN date_map
          /\ Len(entries_by_date[g].entries) = 1
    /\ call_log # <<>>

NoSourceFlaggingGroupOfTwoWitness ==
    /\ pc = "verify_returned"
    /\ \E g \in 1..processed_dates :
          /\ entries_by_date[g].date_str \notin DOMAIN date_map
          /\ Len(entries_by_date[g].entries) = 2

\* C19: once the audit call of a date group has failed, no further group is
\* taken and no further call is made, and verify_chronology returns a
\* failure that carries the error and none of the findings collected for
\* the groups before.
VerificationAbort ==
    CallFailed =>
        /\ pc \in {"Failed", "verify_returned"}
        /\ processed_dates = call_log[Len(call_log)].batch_num
        /\ ~call_log[Len(call_log)].reply.returned
        /\ pc = "verify_returned" =>
                /\ verify_result.kind = "returned"
                /\ ~verify_result.success
                /\ verify_result.error.exception = outcome
                /\ verify_result.payload = <<>>

VerificationAbortWitness ==
    /\ pc = "verify_returned"
    /\ CallFailed
    /\ \E i \in 1..Len(verification_results) :
            Contains(verification_results[i], NoSourceMark)

VerificationAbortLaterGroupWitness ==
    /\ pc = "verify_returned"
    /\ CallFailed
    /\ processed_dates < Len(entries_by_date)

\* the findings a processed group has produced: one NoSource finding per
\* entry when its date has no document, otherwise what the audit returned
\* unless that is empty or says that no issues were found
FindingsOfGroup(g) ==
    LET group == entries_by_date[g]
    IN IF group.date_str \notin DOMAIN date_map
       THEN [i \in 1..Len(group.entries) |-> NoSourceFinding(group.date_str)]
       ELSE LET k == CHOOSE k \in 1..Len(call_log) :
                        call_log[k].batch_num = g
                text == call_log[k].reply.text
            IN IF text # <<>> /\ ~Contains(text, NoIssuesPhrase)
               THEN <<text>> ELSE <<>>

RECURSIVE FindingsUpTo(_)
FindingsUpTo(g) ==
    IF g = 0 THEN <<>> ELSE FindingsUpTo(g - 1) \o FindingsOfGroup(g)

\* C20: when verification completes, its report is the no-issues message
\* exactly when no group produced a finding; otherwise it is the findings
\* of all groups, in the order the groups were processed, joined by blank
\* lines under the heading of the report.
ReportComposition ==
    (pc = "verify_returned" /\ verify_result.success) =>
        LET findings == FindingsUpTo(Len(entries_by_date))
            report == verify_result.payload
        IN /\ processed_dates = Len(entries_by_date)
           /\ (report = NoIssuesMessage) <=> (findings = <<>>)
           /\ findings # <<>> =>
                report = IssuesHeading \o JoinWith(findings, BlankLine)

ReportCompositionWitness ==
    /\ pc = "verify_returned"
    /\ verify_result.success
    /\ Len(verification_results) = 2
    /\ Contains(verification_results[1], NoSourceMark)
    /\ verification_results[2] = IssueText

ReportNoIssuesWitness ==
    /\ pc = "verify_returned"
    /\ verify_result.success
    /\ verify_result.payload = NoIssuesMessage
    /\ Len(call_log) = 2

\* C21: when verification completes, every reply of the audit service that
\* reports an issue is found in the final report.
AuditFindingsKept ==
    (pc = "verify_returned" /\ verify_result.success) =>
        \A k \in 1..Len(call_log) :
            Contains(call_log[k].reply.text, IssueText)
                => Contains(verify_result.payload, call_log[k].reply.text)

(***************************************************************************)
(* hooks/formatting_guard.py: check_formatting_violations                  *)
(***************************************************************************)
UpperCase ==
    {"A", "B", "C", "D", "E", "F", "G", "H", "I", "J", "K", "L", "M", "N",
    "O", "P", "Q", "R", "S", "T", "U", "V", "W", "X", "Y", "Z"}

LowerOf ==
    "A" :> "a" @@ "B" :> "b" @@ "C" :> "c" @@ "D" :> "d" @@ "E" :> "e" @@
    "F" :> "f" @@ "G" :> "g" @@ "H" :> "h" @@ "I" :> "i" @@ "J" :> "j" @@
    "K" :> "k" @@ "L" :> "l" @@ "M" :> "m" @@ "N" :> "n" @@ "O" :> "o" @@
    "P" :> "p" @@ "Q" :> "q" @@ "R" :> "r" @@ "S" :> "s" @@ "T" :> "t" @@
    "U" :> "u" @@ "V" :> "v" @@ "W" :> "w" @@ "X" :> "x" @@ "Y" :> "y" @@
    "Z" :> "z"

LowerCase == {LowerOf[c] : c \in UpperCase}

\* \w
IsWordChar(c) == c \in UpperCase \cup LowerCase \cup {"_"} \/ IsDigit(c)

\* content.lower(), for re.IGNORECASE against a lowercase pattern
Lower(s) ==
    [i \in 1..Len(s) |-> IF s[i] \in UpperCase THEN LowerOf[s[i]] ELSE s[i]]

\* the positions where ^ matches under re.MULTILINE
LineStarts(s) == {1} \cup {i + 1 : i \in {j \in 1..Len(s) : s[j] = "\n"}}

\* re.search(r'\*\*[^*]+\*\*', content)
HasBold(s) ==
    \E i \in 1..Len(s), j \in 1..Len(s) :
        /\ i + 2 < j /\ j < Len(s)
        /\ s[i] = "*" /\ s[i + 1] = "*"
        /\ \A k \in (i + 2)..(j - 1) : s[k] # "*"
        /\ s[j] = "*" /\ s[j + 1] = "*"

\* re.search(r'^\s*X\s+', content, re.MULTILINE) for a bullet character X
HasBullet(s, bullet) ==
    \E p \in LineStarts(s) :
        LET q == FirstNonSpace(s, p)
        IN /\ q < Len(s)
           /\ s[q] = bullet
           /\ s[q + 1] \in Whitespace

\* re.search(r'^\d+\.\s+', content, re.MULTILINE)
HasNumbered(s) ==
    \E p \in LineStarts(s), q \in 1..Len(s) :
        /\ p < q /\ q < Len(s)
        /\ \A k \in p..(q - 1) : IsDigit(s[k])
        /\ s[q] = "."
        /\ s[q + 1] \in Whitespace

\* for pattern in bullet_patterns: if re.search(...): append; break
HasList(s) ==
    \/ HasBullet(s, "*")
    \/ HasBullet(s, "-")
    \/ HasBullet(s, "(bullet)")
    \/ HasNumbered(s)

\* the first pattern of bullet_patterns that is found
ListPattern(s) ==
    IF HasBullet(s, "*") THEN "^\\s*\\*\\s+"
    ELSE IF HasBullet(s, "-") THEN "^\\s*-\\s+"
    ELSE IF HasBullet(s, "(bullet)") THEN "^\\s*(bullet)\\s+"
    ELSE "^\\d+\\.\\s+"

\* s[from..to] is [A-Z]{2,}
IsCapsWord(s, from, to) ==
    /\ from < to /\ to <= Len(s)
    /\ \A k \in from..to : s[k] \in UpperCase

\* s[from..to] is \s+
IsSpaceRun(s, from, to) ==
    /\ from <= to /\ to <= Len(s)
    /\ \A k \in from..to : s[k] \in Whitespace

\* (?:\s+[A-Z]{2,}){n,}\b matched from position p on
RECURSIVE CapsWordsFollow(_, _, _)
CapsWordsFollow(s, p, n) ==
    IF n = 0 THEN p > Len(s) \/ ~IsWordChar(s[p])
    ELSE \E a \in p..Len(s), b \in p..Len(s) :
            /\ IsSpaceRun(s, p, a)
            /\ IsCapsWord(s, a + 1, b)
            /\ b = Len(s) \/ s[b + 1] \notin UpperCase
            /\ CapsWordsFollow(s, b + 1, n - 1)

\* re.search(r'\b[A-Z]{2,}(?:\s+[A-Z]{2,}){4,}\b', content)
HasAllCaps(s) ==
    \E a \in 1..Len(s), b \in 1..Len(s) :
        /\ a = 1 \/ ~IsWordChar(s[a - 1])
        /\ IsCapsWord(s, a, b)
        /\ b = Len(s) \/ s[b + 1] \notin UpperCase
        /\ CapsWordsFollow(s, b + 1, 4)

\* a message of the list returned: the rule broken and what was found
Violation(rule, pattern) == [rule |-> rule, pattern |-> pattern]

narrative_phrases ==
    <<
      <<"t", "h", "e", " ", "p", "a", "t", "i", "e", "n", "t", " ", "w", "a",
        "s", " ", "s", "e", "e", "n", " ", "f", "o", "r">>,
      <<"p", "a", "t", "i", "e", "n", "t", " ", "p", "r", "e", "s", "e", "n",
        "t", "e", "d", " ", "w", "i", "t", "h", " ", "a", " ", "c", "h", "i",
        "e", "f", " ", "c", "o", "m", "p", "l", "a", "i", "n", "t">>,
      <<"t", "h", "e", " ", "p", "a", "t", "i", "e", "n", "t", " ", "p", "r",
        "e", "s", "e", "n", "t", "e", "d">>,
      <<"p", "r", "e", "-", "p", "r", "o", "c", "e", "d", "u", "r", "e", " ",
        "l", "a", "b", "o", "r", "a", "t", "o", "r", "y", " ", "s", "t", "u",
        "d", "i", "e", "s", " ", "w", "e", "r", "e", " ", "p", "e", "r", "f",
        "o", "r", "m", "e", "d">>
    >>

\* the phrases found, in the order of narrative_phrases
RECURSIVE NarrativeViolations(_, _)
NarrativeViolations(s, k) ==
    IF k > Len(narrative_phrases) THEN <<>>
    ELSE (IF Contains(Lower(s), narrative_phrases[k])
          THEN <<Violation("narrative", Decimal(k))>>
          ELSE <<>>) \o NarrativeViolations(s, k + 1)

check_formatting_violations(s) ==
    (IF HasBold(s) THEN <<Violation("bold", <<>>)>> ELSE <<>>)
    \o (IF HasList(s) THEN <<Violation("list", <<ListPattern(s)>>)>>
        ELSE <<>>)
    \o (IF HasAllCaps(s) THEN <<Violation("all_caps", <<>>)>> ELSE <<>>)
    \o NarrativeViolations(s, 1)

(***************************************************************************)
(* check_formatting_violations applied to a content                        *)
(***************************************************************************)
\* the content of test_detect_numbered_lists
NumberedListTestContent ==
    <<"\n", " ", " ", " ", " ", " ", " ", " ", " ", "I", "n", "t", "r", "o",
      "d", "u", "c", "t", "i", "o", "n", "\n", " ", " ", " ", " ", " ", " ",
      " ", " ", "1", ".", " ", "F", "i", "r", "s", "t", " ", "i", "t", "e",
      "m", "\n", " ", " ", " ", " ", " ", " ", " ", " ", "2", ".", " ", "S",
      "e", "c", "o", "n", "d", " ", "i", "t", "e", "m", "\n", " ", " ", " ",
      " ", " ", " ", " ", " ">>

GuardLines ==
    {<<"1", ".", " ", "a">>,
     <<" ", " ", "1", ".", " ", "a">>,
     <<"1", "2", ".", " ", "a">>,
     <<"1", ".", "a">>,
     <<"a", " ", "1", ".", " ", "b">>,
     <<"I", "n", "t", "r", "o">>,
     <<"*", " ", "a">>,
     <<" ", "-", " ", "a">>,
     <<"(bullet)", " ", "a">>,
     <<"*", "*", "a", "*", "*">>,
     <<"A", "B", " ", "C", "D", " ", "E", "F", "\n", "G", "H", " ", "I", "J">>,
     <<"A", "B", " ", "C", "D", " ", "E", "F", " ", "G", "H", " ", "I", "j">>,
     <<"T", "h", "e", " ", "P", "a", "t", "i", "e", "n", "t", " ",
       "p", "r", "e", "s", "e", "n", "t", "e", "d">>,
     <<>>}

GuardContents ==
    {NumberedListTestContent}
        \cup UNION {{JoinWith(ls, <<"\n">>) : ls \in [1..k -> GuardLines]} :
                    k \in 0..MaxGuardLines}

GuardInit ==
    /\ pc = "guard_call"
    /\ content \in GuardContents
    /\ violations = <<>>
    /\ filename = <<>> /\ max_chunk_chars = 0 /\ chunks = <<>>
    /\ BatcherIdle /\ RetryIdle /\ MergerIdle /\ PipelineIdle

CheckFormattingViolations ==
    /\ pc = "guard_call"
    /\ violations' = check_formatting_violations(content)
    /\ pc' = "guard_done"
    /\ UNCHANGED <<chunkerVars, batcherVars, retryVars, mergerVars,
                   pipelineVars>>

GuardNext == CheckFormattingViolations

SpecGuard == GuardInit /\ [][GuardNext]_vars

\* the lines of a text
RECURSIVE LinesFrom(_, _)
LinesFrom(s, start) ==
    LET found == {j \in start..Len(s) : s[j] = "\n"}
    IN IF found = {} THEN <<SubSeq(s, start, Len(s))>>
       ELSE LET j == CHOOSE j \in found : \A k \in found : j <= k
            IN <<SubSeq(s, start, j - 1)>> \o LinesFrom(s, j + 1)

\* digits, a period, whitespace, then text, after any indentation
IsNumberedListLine(line) ==
    LET body == LStrip(line)
    IN \E q \in 2..Len(body) :
          /\ \A k \in 1..(q - 1) : IsDigit(body[k])
          /\ body[q] = "."
          /\ q < Len(body)
          /\ body[q + 1] \in Whitespace
          /\ Strip(SubSeq(body, q + 1, Len(body))) # <<>>

HasNumberedListLine(s) ==
    \E k \in 1..Len(LinesFrom(s, 1)) : IsNumberedListLine(LinesFrom(s, 1)[k])

\* C22: for every content with a numbered-list line, indented or not,
\* check_formatting_violations returns at least one violation.
NumberedListDetected ==
    (pc = "guard_done" /\ HasNumberedListLine(content)) => violations # <<>>

(***************************************************************************)
(* Further claims about the retry engine                                   *)
(***************************************************************************)
\* the failure answered to request i was handled as retryable: a wait or
\* the wrapped error of exhausted retries followed it
HandledAsRetryable(i) ==
    \/ i < Len(responses)
    \/ Len(waits) >= i
    \/ pc = "RetryWait"
    \/ outcome.kind = "wrapped"

\* C23: a failed attempt is handled as retryable exactly when the service
\* signalled overload or rate limiting with that failure.
RetryClassification ==
    \A i \in 1..Len(responses) :
        responses[i].kind # "ok"
            => (HandledAsRetryable(i) <=> SignalledRetryable(responses[i]))

RetryEnded == pc \in {"Success", "Failed"}

\* a failure the handler retries while attempts are left
RetriedFailure(r) == r.kind = "api_error" /\ ~ReportedOther(r)

\* what the requests made so far and the state of the call must look like
RetryLoopShape ==
    /\ Len(responses) <= max_retries
    /\ \A i \in 1..Len(responses) :
          /\ i < Len(responses) => RetriedFailure(responses[i])
          /\ responses[i].kind = "ok" => pc = "Success"
    /\ pc = "Success" =>
          /\ responses # <<>>
          /\ responses[Len(responses)].kind = "ok"
          /\ outcome.kind = "returned"
          /\ outcome.text = Strip(responses[Len(responses)].text)
    /\ pc = "Failed" =>
          \/ /\ Len(responses) = max_retries
             /\ \A i \in 1..Len(responses) : RetriedFailure(responses[i])
          \/ /\ responses # <<>>
             /\ ReportedOther(responses[Len(responses)])

TokensOf(doc) == Len(doc.content) \div 4

\* C25: the batches are cut greedily: every batch but the last, taken with
\* the first document of the batch after it, is over the budget, and within
\* a batch every document after the first still fitted the budget when it
\* was added.
GreedyBoundaries ==
    pc = "batch_done" =>
        /\ \A b \in 1..(Len(batches) - 1) :
              BatchTokens(batches[b]) + TokensOf(batches[b + 1][1])
                  > max_batch_tokens
        /\ \A b \in 1..Len(batches) :
              \A j \in 2..Len(batches[b]) :
                  BatchTokens(SubSeq(batches[b], 1, j)) <= max_batch_tokens

GreedyBoundariesWitness ==
    /\ pc = "batch_done"
    /\ Len(batches) = 3
    /\ Len(batches[2]) = 1
    /\ BatchTokens(batches[2]) <= max_batch_tokens
    /\ TokensOf(batches[3][1]) <= max_batch_tokens

GreedyBoundariesFullBatchWitness ==
    /\ pc = "batch_done"
    /\ Len(batches) = 2
    /\ Len(batches[1]) = 2
    /\ BatchTokens(batches[1]) < max_batch_tokens

(***************************************************************************)
(* Further claims about the merger                                         *)
(***************************************************************************)
\* the calendar, stated apart from the model of datetime
MonthLengths == <<31, 28, 31, 30, 31, 30, 31, 31, 30, 31, 30, 31>>

IsCalendarDate(year, month, day) ==
    /\ year >= 1
    /\ month \in 1..12
    /\ day >= 1
    /\ day <= IF /\ month = 2
                 /\ year % 4 = 0
                 /\ (year % 100 # 0 \/ year % 400 = 0)
              THEN 29 ELSE MonthLengths[month]

\* the entry starts with digit{1,2}/digit{1,2}/digit{4}
HasLeadingDateToken(entry) == MatchLeadingDate(entry) # <<>>

HasValidLeadingDate(entry) ==
    /\ HasLeadingDateToken(entry)
    /\ LET groups == MatchLeadingDate(entry)
       IN IsCalendarDate(IntOf(groups[3]), IntOf(groups[1]),
                         IntOf(groups[2]))

HasInvalidLeadingDate(entry) ==
    HasLeadingDateToken(entry) /\ ~HasValidLeadingDate(entry)

CountsAsUndated(entry) == ~HasValidLeadingDate(entry)

\* C26: an entry whose leading token has the form of a date but is no
\* calendar date is kept by the merger and stands after every validly
\* dated entry, in its original order among the entries without a valid
\* date.
InvalidDatesAsUndated ==
    (pc = "sort_done" /\ InputEntries # <<>>) =>
        LET input == InputEntries
            output == Entries(sorted_text)
        IN /\ \A i \in 1..Len(input) :
                 HasInvalidLeadingDate(input[i]) =>
                    Occurrences(output, input[i])
                        = Occurrences(input, input[i])
           /\ \A i \in 1..Len(output), j \in 1..Len(output) :
                 (HasInvalidLeadingDate(output[i])
                    /\ HasValidLeadingDate(output[j])) => j < i
           /\ SelectSeq(output, CountsAsUndated)
                 = SelectSeq(input, CountsAsUndated)

InvalidDatesAsUndatedWitness ==
    /\ pc = "sort_done"
    /\ LET input == InputEntries
       IN /\ Len(input) = 4
          /\ ~HasLeadingDateToken(input[1])
          /\ HasInvalidLeadingDate(input[2])
          /\ HasValidLeadingDate(input[3])
          /\ ~HasLeadingDateToken(input[4])

(***************************************************************************)
(* Further claims about verify_chronology                                  *)
(***************************************************************************)
\* the MM/DD/YYYY value of the leading date of an entry, <<>> without one
LeadingKey(entry) ==
    IF HasValidLeadingDate(entry) THEN TokenKey(entry, 1) ELSE <<>>

\* the dates of the narrative in the order of their first appearance
RECURSIVE FirstAppearances(_, _)
FirstAppearances(entries, seen) ==
    IF entries = <<>> THEN <<>>
    ELSE LET key == LeadingKey(Head(entries))
         IN IF key = <<>> \/ key \in seen
            THEN FirstAppearances(Tail(entries), seen)
            ELSE <<key>> \o FirstAppearances(Tail(entries), seen \cup {key})

NarrativeDates == FirstAppearances(NarrativeEntries(chronology_text), {})

\* the entries of the narrative with a given date, in narrative order
RECURSIVE EntriesWithKey(_, _)
EntriesWithKey(entries, key) ==
    IF entries = <<>> THEN <<>>
    ELSE (IF LeadingKey(Head(entries)) = key THEN <<Head(entries)>>
          ELSE <<>>) \o EntriesWithKey(Tail(entries), key)

\* the audits expected: for each date with a document in the index, in
\* order, the number of its group and the entries to verify
RECURSIVE ExpectedAudits(_, _)
ExpectedAudits(dates, g) ==
    IF g > Len(dates) THEN <<>>
    ELSE (IF dates[g] \in DOMAIN date_map
          THEN <<[group |-> g,
                  entries |->
                      JoinWith(EntriesWithKey(
                                   NarrativeEntries(chronology_text),
                                   dates[g]), BlankLine)]>>
          ELSE <<>>) \o ExpectedAudits(dates, g + 1)

\* C27: a completed verification has made one audit call for each date of
\* the narrative that has a document in the date index, and no other call;
\* the calls follow the order in which the dates first appear, and each
\* call carries all entries whose leading dates normalize to its date.
AuditCalls ==
    (pc = "verify_returned" /\ verify_result.success) =>
        LET expected == ExpectedAudits(NarrativeDates, 1)
        IN /\ Len(call_log) = Len(expected)
           /\ \A k \in 1..Len(call_log) :
                 /\ call_log[k].prompt.kind = "audit"
                 /\ call_log[k].batch_num = expected[k].group
                 /\ call_log[k].prompt.entries = expected[k].entries
                 /\ call_log[k].reply.returned

AuditCallsWitness ==
    /\ pc = "verify_returned"
    /\ verify_result.success
    /\ Len(call_log) = 1
    /\ Len(entries_by_date) = 1
    /\ Len(entries_by_date[1].entries) = 2
    /\ Len(entries_by_date[1].entries[1]) # Len(entries_by_date[1].entries[2])

AuditCallsInOrderWitness ==
    /\ pc = "verify_returned"
    /\ verify_result.success
    /\ Len(call_log) = 2
    /\ Contains(call_log[1].prompt.entries, Entry0301)
    /\ Contains(call_log[2].prompt.entries, Entry0130)

AuditCallsSkippedGroupWitness ==
    /\ pc = "verify_returned"
    /\ verify_result.success
    /\ Len(call_log) = 1
    /\ call_log[1].batch_num = 2

\* the entries of the narrative without a valid leading date
UnverifiedEntries ==
    LET entries == NarrativeEntries(chronology_text)
    IN {entries[i] : i \in {j \in 1..Len(entries) :
                                ~HasValidLeadingDate(entries[j])}}

\* the entries of the narrative whose valid leading date has no document
UnsourcedEntries ==
    LET entries == NarrativeEntries(chronology_text)
    IN {i \in 1..Len(entries) :
            /\ HasValidLeadingDate(entries[i])
            /\ LeadingKey(entries[i]) \notin DOMAIN date_map}

\* C28: an entry of the narrative without a valid leading date is in no
\* date group and in no audit prompt, and no finding is made for it: the
\* NoSource findings are as many as the validly dated entries of processed
\* groups allow; a narrative of such entries alone ends in the no-issues
\* report without any service call.
UndatedNotVerified ==
    /\ \A e \in UnverifiedEntries :
          /\ \A g \in 1..Len(entries_by_date) :
                \A i \in 1..Len(entries_by_date[g].entries) :
                    entries_by_date[g].entries[i] # e
          /\ \A k \in 1..Len(call_log) :
                ~Contains(call_log[k].prompt.entries, e)
          /\ \A i \in 1..Len(verification_results) :
                ~Contains(verification_results[i],
                          SubSeq(e, 1, IF Len(e) < 10 THEN Len(e) ELSE 10))
    /\ pc \in {"group_loop", "verify_returned"} =>
          Cardinality({i \in 1..Len(verification_results) :
                          Contains(verification_results[i], NoSourceMark)})
              <= Cardinality(UnsourcedEntries)
    /\ (\A i \in 1..Len(NarrativeEntries(chronology_text)) :
            ~HasValidLeadingDate(NarrativeEntries(chronology_text)[i]))
          => /\ call_log = <<>>
             /\ responses = <<>>
             /\ verification_results = <<>>
             /\ pc = "verify_returned" =>
                    /\ verify_result.success
                    /\ verify_result.payload = NoIssuesMessage

UndatedNotVerifiedWitness ==
    /\ pc = "verify_returned"
    /\ files # <<>>
    /\ Cardinality(UnverifiedEntries) = 2
    /\ Len(NarrativeEntries(chronology_text)) = 2
    /\ \E e \in UnverifiedEntries : HasInvalidLeadingDate(e)

UndatedBesideDatedWitness ==
    /\ pc = "verify_returned"
    /\ verify_result.success
    /\ \E e \in UnverifiedEntries : HasInvalidLeadingDate(e)
    /\ Len(verification_results) = 1

(***************************************************************************)
(* Chunking and the date index                                             *)
(***************************************************************************)
\* doc is the whole file f or one of its "(part n)" chunks
IsChunkOf(doc, f) ==
    LET prefix == f.name \o <<" ", "(", "p", "a", "r", "t", " ">>
    IN \/ doc.filename = f.name
       \/ /\ Len(doc.filename) > Len(prefix)
          /\ SubSeq(doc.filename, 1, Len(prefix)) = prefix

\* the keys under which at least one chunk of the file f is indexed
ChunkKeys(f) ==
    {k \in DOMAIN date_map :
        \E j \in 1..Len(date_map[k]) : IsChunkOf(date_map[k][j], f)}

\* C29: for every readable file and either chunk size limit, the set of
\* normalized dates under which at least one chunk of the file is indexed
\* equals the set of normalized dates of the file's unchunked content:
\* chunking loses no date, splits no date token and invents none.
ChunkingKeepsDateKeys ==
    pc = "index_done" =>
        \A i \in 1..Len(files) :
            files[i].readable =>
                ChunkKeys(files[i]) = TokenKeys(files[i].content)

\* a file split into three chunks, with a valid date in the first and in
\* the last chunk and an overlong month in the middle one
ChunkingKeepsDateKeysWitness ==
    /\ pc = "index_done"
    /\ Len(files) = 3
    /\ max_chunk_chars = SmallChunkChars
    /\ files[3].content = Date0320 \o <<" ">> \o DateOverlong \o <<" ">>
                              \o Date0205Short
    /\ Len(documents) = 5
    /\ ChunkKeys(files[3]) = {Date0320, Date0205}

\* short words share a chunk and the date stands in the final chunk
ChunkingSharedChunkWitness ==
    /\ pc = "index_done"
    /\ Len(files) = 1
    /\ max_chunk_chars = SmallChunkChars
    /\ files[1].content = PlainWord \o <<" ">> \o PlainWord \o <<" ">>
                              \o Date0205Short
    /\ Len(documents) = 2
    /\ documents[1].content = PlainWord \o <<" ">> \o PlainWord
    /\ ChunkKeys(files[1]) = {Date0205}

(***************************************************************************)
(* Merging twice                                                           *)
(***************************************************************************)
\* C30: for an input text with at least one non-blank entry, sorting the
\* output of _sort_entries_chronologically again returns that output
\* unchanged, and the output is the function's value at the input text
\* alone.
MergerIdempotent ==
    (pc = "sort_done" /\ Entries(entries_text) # <<>>) =>
        /\ sort_entries_chronologically(sorted_text) = sorted_text
        /\ sorted_text = sort_entries_chronologically(entries_text)

\* an input wrapped in whitespace whose entries the call reorders: two
\* entries of one date, an earlier one behind them and an undated entry
\* in front of a dated one
MergerIdempotentWitness ==
    /\ pc = "sort_done"
    /\ Len(Entries(entries_text)) = 4
    /\ entries_text # Strip(entries_text)
    /\ Entries(sorted_text) # Entries(entries_text)
    /\ Occurrences(Entries(entries_text), Entry0130) = 1
    /\ Occurrences(Entries(entries_text), Entry0130Short) = 1
    /\ Occurrences(Entries(entries_text), EntryUndated) = 1
    /\ Entries(sorted_text)[4] = EntryUndated
    /\ sort_entries_chronologically(sorted_text) = sorted_text

====
